---- MODULE Spec2Model ----
(***************************************************************************)
(* State-machine model of the two PDF signature editors of React-lib:      *)
(*   - the template-based editor  (src/src/Button.tsx, PDFSignatureEditorInner) *)
(*   - the fixed-position editor  (src/src/PDFSignatureEditor.tsx)         *)
(* One behaviour follows one editor instance; `editor` says which one.     *)
(* Every asynchronous handler is split at its awaits: the synchronous      *)
(* prefix is one action, each settled await that touches the component     *)
(* state is another.                                                       *)
(***************************************************************************)
EXTENDS Integers, Sequences, FiniteSets, TLC

VARIABLES
    editor,            \* "template" (Button.tsx) or "fixed" (PDFSignatureEditor.tsx)
    props,             \* the props of the latest render
    enableUndo,        \* prop enableUndo (constant over a behaviour)
    mounted,           \* the mount effects have run
    documentIdRef,     \* Button.tsx documentIdRef.current / activeDocumentId
    sessionTokenRef,   \* Button.tsx sessionTokenRef.current / sessionTokenState
    currentPdfBlob,    \* Button.tsx currentPdfBlob ; PDFSignatureEditor.tsx pdf
    originalPdfBlob,   \* Button.tsx originalPdfBlob ; PDFSignatureEditor.tsx originalPdf
    modifiedPdfBlob,   \* modifiedPdfBlob (both editors)
    pdfHistory,        \* pdfHistory (both editors)
    hasSignature,      \* Button.tsx hasSignature
    signatureTargets,  \* Button.tsx signatureTargets
    metadataTargets,   \* Button.tsx metadataTargets
    loading,           \* loading (both editors)
    error,             \* error (both editors)
    isSubmitting,      \* isSubmitting (both editors)
    bootRuns,          \* every run of the document-load effect, in start order
    hydRuns,           \* every run of the coordinate-fetch effect, in start order
    placing,           \* handleAddSignature calls suspended at an await
    submitting,        \* submit calls suspended at an await
    netLog,            \* the submission requests put on the wire so far, in order
    callbackLog,       \* the latest caller callback invoked (onError, onSuccess, onSubmit, onLoadError)
    toast,             \* the message of the latest notice (showToast)
    lastPlacement,     \* history variable: the latest handleAddSignature call begun with
                       \* no other call suspended, the document state it began in, and
                       \* how far the handlers that followed it without interruption got
    resolution,        \* the entries of a coordinates response, the pageMetrics argument
                       \* and the positions fetchSignaturePositions maps them to
    viewer             \* the document view: the file react-pdf reported loaded, totalPages,
                       \* PDFSignatureEditor.tsx pageNum, Button.tsx pagesRenderedRef and
                       \* pagesReadyNotifiedRef, the pages whose render is pending, and two
                       \* history fields (pages rendered, onAllPagesRendered calls since the load)

vars == << editor, props, enableUndo, mounted, documentIdRef, sessionTokenRef,
           currentPdfBlob, originalPdfBlob, modifiedPdfBlob, pdfHistory,
           hasSignature, signatureTargets, metadataTargets, loading, error,
           isSubmitting, bootRuns, hydRuns, placing, submitting, netLog,
           callbackLog, toast, lastPlacement, resolution, viewer >>

(***************************************************************************)
(* Bounds of the model.                                                    *)
(***************************************************************************)
\* pages of the documents "p0" and "u0"
DocPages == 3
\* pages of the document "p1"
ShortDocPages == 1
\* onRenderSuccess events counted after one load before further renders are not explored
MaxRenders == 4
\* runs of the load / coordinate effects per instance (mount + prop changes)
MaxEffectRuns == 2
\* handleAddSignature calls that may be suspended at the same time
MaxInFlight == 2
\* entries the history stack may hold before further placements are not explored
MaxHistory == 2
\* signature layers a snapshot may carry before further placements are not explored
MaxLayers == 1
\* submit calls that may be suspended at the same time
MaxSubmitsInFlight == 1
\* submission requests per instance before further submits are not explored
MaxSubmits == 1

(***************************************************************************)
(* Values.                                                                 *)
(***************************************************************************)
\* undefined / null / "" for identifiers and messages
None == "none"

\* null for a Blob (or an object URL) reference
NoBlob == [null |-> TRUE]

\* A snapshot: its bytes (the document it came from and the draw layers
\* saved into it) and the identity of the object holding them.
MkBlob(doc, layers, ref) == [doc |-> doc, layers |-> layers, ref |-> ref]

\* byte content of a snapshot, without the object identity
Bytes(b) == IF b = NoBlob THEN << >> ELSE << b.doc, b.layers >>

\* Button.tsx PDF_BASE_WIDTH; zoom is held in hundredths
PDF_BASE_WIDTH == 600
MIN_ZOOM == 60
MAX_ZOOM == 250
ZOOM_STEP == 10
\* hundredths of zoom explored on either side of 1
ZoomExplored == 10
\* inner widths of the container a resize may leave
AvailableWidths == { 360, 600 }

\* the document view before react-pdf reported any document
NoViewer ==
    [ file |-> NoBlob, totalPages |-> 0, pageNum |-> 0, pagesRendered |-> 0,
      pagesReadyNotified |-> FALSE, toRender |-> { }, renderedOnce |-> { }, notified |-> 0,
      zoom |-> 100, availableWidth |-> PDF_BASE_WIDTH ]

\* a placement target (ElementPosition): page and type
Target(page, type) == [page |-> page, type |-> type]


\* Button.tsx MetadataFieldType, in the order handleAddSignature walks them
MetadataFieldTypes == << "NAME", "EMAIL", "DATE" >>

\* Button.tsx createEmptyMetadataTargets
createEmptyMetadataTargets == [NAME |-> << >>, EMAIL |-> << >>, DATE |-> << >>]

\* Button.tsx isMetadataFieldType
isMetadataFieldType(type) == type \in { "NAME", "EMAIL", "DATE" }

\* Button.tsx bucketizeMetadataTargets
bucketizeMetadataTargets(positions) ==
    [ f \in { "NAME", "EMAIL", "DATE" } |->
        SelectSeq(positions, LAMBDA p : isMetadataFieldType(p.type) /\ p.type = f) ]

\* Button.tsx hydrateSignatureTargets: the entries kept as signature targets
remoteSignatureTargets(remoteTargets) ==
    SelectSeq(remoteTargets, LAMBDA t : t.type = "ABSENT" \/ t.type = "SIGNATURE")

\* Button.tsx fallbackTargets: the signaturePosition prop, typed SIGNATURE by default
fallbackTargets(p) ==
    IF p.signaturePosition = << >> THEN << >>
    ELSE << Target(p.signaturePosition[1], "SIGNATURE") >>

(***************************************************************************)
(* The document state touched by applyBlob and its callers, as one record, *)
(* so that a handler is the composition of the setState calls it makes.    *)
(***************************************************************************)
DocState ==
    [ cur |-> currentPdfBlob, orig |-> originalPdfBlob, mod |-> modifiedPdfBlob,
      hist |-> pdfHistory, has |-> hasSignature ]

SetDocState(s) ==
    /\ currentPdfBlob' = s.cur
    /\ originalPdfBlob' = s.orig
    /\ modifiedPdfBlob' = s.mod
    /\ pdfHistory' = s.hist
    /\ hasSignature' = s.has

\* Button.tsx applyBlob(blob, { isOriginal, markModified })
applyBlob(s, blob, isOriginal, markModified) ==
    LET s1 == [s EXCEPT !.cur = blob] IN
    IF isOriginal
    THEN [s1 EXCEPT !.orig = blob, !.mod = NoBlob, !.hist = << >>, !.has = FALSE]
    ELSE IF markModified THEN [s1 EXCEPT !.mod = blob] ELSE s1

\* Blob.slice(0, size, type): a new Blob object over the same bytes
SliceClone(blob) == [blob EXCEPT !.ref = << "clone", 0 >>]

\* saveToHistory with the push left out
saveToHistory_neverPushes(s, cur, sliceThrows) == s

\* Button.tsx saveToHistory; `cur` is the currentPdfBlob of the closure and
\* sliceThrows says whether Blob.slice threw (the catch pushes the blob itself)
saveToHistory(s, cur, sliceThrows) ==
    IF cur = NoBlob \/ ~enableUndo THEN s
    ELSE [s EXCEPT !.hist = Append(@, IF sliceThrows THEN cur ELSE SliceClone(cur))]

\* handleUndo restoring the top entry without popping it
undoPrevious_keepsEntry(s) ==
    LET previous == s.hist[Len(s.hist)]
        s2 == applyBlob(s, previous, FALSE, previous # s.orig)
        s3 == IF previous = s.orig THEN [s2 EXCEPT !.mod = NoBlob] ELSE s2
    IN  [s3 EXCEPT !.has = FALSE]

\* Button.tsx handleUndo, the branch taken when pdfHistory is not empty
undoPrevious(s) ==
    LET previous == s.hist[Len(s.hist)]
        s1 == [s EXCEPT !.hist = SubSeq(@, 1, Len(@) - 1)]
        s2 == applyBlob(s1, previous, FALSE, previous # s.orig)
        s3 == IF previous = s.orig THEN [s2 EXCEPT !.mod = NoBlob] ELSE s2
    IN  [s3 EXCEPT !.has = FALSE]

\* handleReset calling applyBlob without isOriginal
resetToOriginal_keepsHistory(s) ==
    [applyBlob(s, s.orig, FALSE, TRUE) EXCEPT !.has = FALSE]

\* Button.tsx handleReset, the branch taken when originalPdfBlob is set
resetToOriginal(s) ==
    [applyBlob(s, s.orig, TRUE, TRUE) EXCEPT !.has = FALSE]

(***************************************************************************)
(* The history variable lastPlacement.  phase is "idle" (nothing recorded), *)
(* "begun", then "published" or "failed", then "undone" and "reset" when   *)
(* undo and reset follow a published placement; a reset while the call is  *)
(* suspended makes it "resetInFlight", then "publishedAfterReset" or       *)
(* "failedAfterReset"; any other step makes it idle again.                 *)
(***************************************************************************)
Idle ==
    [ phase |-> "idle",
      pre |-> [cur |-> NoBlob, orig |-> NoBlob, mod |-> NoBlob, hist |-> << >>, has |-> FALSE],
      task |-> [ targets |-> << >>,
                 mtargets |-> [NAME |-> << >>, EMAIL |-> << >>, DATE |-> << >>],
                 meta |-> [name |-> FALSE, email |-> FALSE, date |-> FALSE] ] ]

\* a call begins: recorded when no other call is suspended
Begun(before, after) ==
    IF Len(before) = 0 /\ Len(after) = 1
    THEN [ phase |-> "begun", pre |-> DocState,
           task |-> [ targets |-> after[1].targets, mtargets |-> after[1].mtargets,
                      meta |-> after[1].meta ] ]
    ELSE Idle

\* the recorded call settles
Settled(ok) ==
    IF lastPlacement.phase = "begun"
    THEN [lastPlacement EXCEPT !.phase = IF ok THEN "published" ELSE "failed"]
    ELSE IF lastPlacement.phase = "resetInFlight"
    THEN [lastPlacement EXCEPT
            !.phase = IF ok THEN "publishedAfterReset" ELSE "failedAfterReset"]
    ELSE Idle

\* undo (popped: the history was not empty) follows the recorded call
Undone(popped) ==
    IF popped /\ lastPlacement.phase = "published"
    THEN [lastPlacement EXCEPT !.phase = "undone"]
    ELSE Idle

\* reset follows the recorded call
Reset ==
    IF lastPlacement.phase \in { "published", "undone" }
    THEN [lastPlacement EXCEPT !.phase = "reset"]
    ELSE IF lastPlacement.phase = "begun"
    THEN [lastPlacement EXCEPT !.phase = "resetInFlight"]
    ELSE Idle

(***************************************************************************)
(* Placement: page resolution and the draw operations of one commit.       *)
(***************************************************************************)
\* number of pages of a loaded document (pdfDoc.getPages().length)
NumPages(blob) == IF blob # NoBlob /\ blob.doc = "p1" THEN ShortDocPages ELSE DocPages

\* the raw page value taken as the index itself
desiredIndex_zeroBased(page) == page

\* Button.tsx handleAddSignature / drawTextAtPosition:
\* desiredIndex = page >= 1 ? page - 1 : page
desiredIndex(page) == IF page >= 1 THEN page - 1 ELSE page

\* pages[index] is a page object (not undefined)
PageExists(index, numPages) == index \in 0 .. (numPages - 1)

\* one draw call on a page: kind is "image", "text" (at a coordinate target)
\* or "fallback" (a line of the block under a signature target); anchor is
\* the position whose x and y the call uses, line the number of text lines
\* the call is shifted below it (0: drawn at the position itself) and dy the
\* y of the call minus the y of the anchor, in points
DrawOp(kind, field, index, anchor, line, dy) ==
    [kind |-> kind, field |-> field, page |-> index, anchor |-> anchor, line |-> line,
     dy |-> dy]

\* Button.tsx handleAddSignature: signatureTargets.map throws for a missing page
signaturePageMissing(targets, numPages) ==
    \E i \in 1 .. Len(targets) : ~PageExists(desiredIndex(targets[i].page), numPages)

\* Button.tsx handleAddSignature: signaturePages.forEach(page.drawImage)
signatureDraws(targets) ==
    [ i \in 1 .. Len(targets) |->
        DrawOp("image", "SIGNATURE", desiredIndex(targets[i].page), targets[i], 0, 0) ]

\* shouldAutoName / shouldAutoEmail / shouldAutoDate of a commit
fieldEnabled(meta, f) ==
    CASE f = "NAME" -> meta.name
      [] f = "EMAIL" -> meta.email
      [] f = "DATE" -> meta.date

\* Button.tsx shouldRenderAutoMetadata
shouldRenderAutoMetadata(targets, meta) ==
    Len(targets) > 0 /\ (meta.name \/ meta.email \/ meta.date)

\* the placements.forEach entries that reach drawTextAtPosition
coordinateFields(mtargets, meta) ==
    SelectSeq(MetadataFieldTypes,
              LAMBDA f : fieldEnabled(meta, f) /\ Len(mtargets[f]) > 0)

\* Button.tsx placedMetadataViaCoordinates
placedMetadataViaCoordinates(targets, mtargets, meta) ==
    shouldRenderAutoMetadata(targets, meta) /\ Len(coordinateFields(mtargets, meta)) > 0

\* drawTextAtPosition throws "Invalid page index" for one of the text targets
textPageMissing(targets, mtargets, meta, numPages) ==
    /\ shouldRenderAutoMetadata(targets, meta)
    /\ \E k \in 1 .. Len(coordinateFields(mtargets, meta)) :
         LET f == coordinateFields(mtargets, meta)[k] IN
         \E i \in 1 .. Len(mtargets[f]) :
            ~PageExists(desiredIndex(mtargets[f][i].page), numPages)

RECURSIVE Flatten(_)
\* concatenation of a sequence of sequences
Flatten(ss) == IF ss = << >> THEN << >> ELSE Head(ss) \o Flatten(Tail(ss))

\* Button.tsx placements.forEach: drawTextAtPosition per field, per target
coordinateDraws(targets, mtargets, meta) ==
    IF ~shouldRenderAutoMetadata(targets, meta) THEN << >>
    ELSE LET fs == coordinateFields(mtargets, meta) IN
         Flatten([ k \in 1 .. Len(fs) |->
            [ i \in 1 .. Len(mtargets[fs[k]]) |->
                DrawOp("text", fs[k], desiredIndex(mtargets[fs[k]][i].page),
                       mtargets[fs[k]][i], 0, 0) ] ])

\* drawFallbackMetadataBlock: blockHeight and lineHeight
blockHeight == 10
lineHeight == 10

RECURSIVE fallbackLinesFrom(_, _, _, _, _, _, _)
\* the if statements of drawFallbackMetadataBlock from field `fields[1]` on:
\* a line that is drawn is the k-th of the block, at currentY (relative to
\* signaturePosition.y); slot says whether a line that is not drawn moves
\* currentY all the same
fallbackLinesFrom(fields, index, signaturePosition, meta, k, currentY, slot) ==
    IF fields = << >> THEN << >>
    ELSE IF fieldEnabled(meta, Head(fields))
    THEN << DrawOp("fallback", Head(fields), index, signaturePosition, k, currentY) >>
           \o fallbackLinesFrom(Tail(fields), index, signaturePosition, meta, k + 1,
                                currentY - lineHeight, slot)
    ELSE fallbackLinesFrom(Tail(fields), index, signaturePosition, meta, k,
                           IF slot THEN currentY - lineHeight ELSE currentY, slot)

\* the block with a slot kept free for every line that is not drawn
drawFallbackMetadataBlock_fixedSlots(index, signaturePosition, meta) ==
    fallbackLinesFrom(MetadataFieldTypes, index, signaturePosition, meta, 1,
                      0 - blockHeight - 1, TRUE)

\* drawFallbackMetadataBlock: the enabled lines, name then email then date,
\* the first at signaturePosition.y - blockHeight - 1 and each further one
\* lineHeight lower
drawFallbackMetadataBlock(index, signaturePosition, meta) ==
    fallbackLinesFrom(MetadataFieldTypes, index, signaturePosition, meta, 1,
                      0 - blockHeight - 1, FALSE)

\* the fallback block drawn under the first signature target only
fallbackDraws_firstTargetOnly(targets, mtargets, meta) ==
    IF shouldRenderAutoMetadata(targets, meta)
       /\ ~placedMetadataViaCoordinates(targets, mtargets, meta)
    THEN drawFallbackMetadataBlock(desiredIndex(targets[1].page), targets[1], meta)
    ELSE << >>

\* Button.tsx: the fallback block under every signature target
fallbackDraws(targets, mtargets, meta) ==
    IF shouldRenderAutoMetadata(targets, meta)
       /\ ~placedMetadataViaCoordinates(targets, mtargets, meta)
    THEN Flatten([ i \in 1 .. Len(targets) |->
                    drawFallbackMetadataBlock(desiredIndex(targets[i].page),
                                              targets[i], meta) ])
    ELSE << >>

\* the draw calls of a commit with the metadata text drawn before the images
commitDraws_textFirst(task) ==
    coordinateDraws(task.targets, task.mtargets, task.meta)
      \o fallbackDraws(task.targets, task.mtargets, task.meta)
      \o signatureDraws(task.targets)

\* every draw call of one successful commit of the template-based editor, in order
commitDraws(task) ==
    signatureDraws(task.targets)
      \o coordinateDraws(task.targets, task.mtargets, task.meta)
      \o fallbackDraws(task.targets, task.mtargets, task.meta)

\* handleAddSignature drawing on the pages it finds, without the page check
commitOutcome_skipsPageCheck(task, lib) ==
    IF lib \in { "load", "embed", "save" } THEN "Failed to add signature" ELSE "ok"

\* Button.tsx handleAddSignature after the first await: "ok" or the message of
\* the error caught; lib is the step at which pdf-lib fails ("none" if it does not)
commitOutcome(task, lib) ==
    LET n == NumPages(task.base) IN
    IF lib = "load" THEN "Failed to add signature"
    ELSE IF signaturePageMissing(task.targets, n) THEN "Invalid signature page index"
    ELSE IF lib = "embed" THEN "Failed to add signature"
    ELSE IF textPageMissing(task.targets, task.mtargets, task.meta, n)
         THEN "Invalid page index for text placement"
    ELSE IF lib = "save" THEN "Failed to add signature"
    ELSE "ok"

\* new Blob([await pdfDoc.save()]): the base bytes plus the layer drawn
savedBlob(task, draws) ==
    MkBlob(task.base.doc, Append(task.base.layers, draws), << "saved", 0 >>)

\* the i-th element removed from a sequence
RemoveAt(seq, i) == SubSeq(seq, 1, i - 1) \o SubSeq(seq, i + 1, Len(seq))


(***************************************************************************)
(* Inputs of the template-based editor.                                    *)
(***************************************************************************)
\* the document sources a caller may configure: pdfData, pdfUrl or both (the
\* legacy sources, one of them together with a documentId), then a
\* documentId, a templateId, or nothing
SourceConfigs ==
    { [pdfData |-> "p0", pdfUrl |-> None, documentId |-> None, templateId |-> None],
      [pdfData |-> "p0", pdfUrl |-> None, documentId |-> "d0", templateId |-> None],
      [pdfData |-> "p0", pdfUrl |-> "u0", documentId |-> None, templateId |-> None],
      [pdfData |-> None, pdfUrl |-> "u0", documentId |-> None, templateId |-> None],
      [pdfData |-> None, pdfUrl |-> None, documentId |-> "d0", templateId |-> None],
      [pdfData |-> None, pdfUrl |-> None, documentId |-> None, templateId |-> "t1"],
      [pdfData |-> None, pdfUrl |-> None, documentId |-> None, templateId |-> "t2"],
      [pdfData |-> None, pdfUrl |-> None, documentId |-> None, templateId |-> None] }

\* the signaturePosition prop: not given, or the page it names
SignaturePositionPages == { << >>, << 1 >>, << DocPages + 2 >> }

\* the props of the template-based editor: every source with a valid
\* signaturePosition, and the position left out or off the document for the
\* sources where it decides the targets
TemplateProps ==
    { p \in { [pdfData |-> c.pdfData, pdfUrl |-> c.pdfUrl, documentId |-> c.documentId,
                templateId |-> c.templateId, signaturePosition |-> sp] :
                  c \in SourceConfigs, sp \in SignaturePositionPages } :
          p.signaturePosition = << 1 >> \/ p.templateId = "t1" }

\* what fetchSignaturePositions may resolve to: the ElementPosition list of a
\* template ("ABSENT": an entry without type, "INITIALS": a type outside the
\* closed set)
RemoteResponses ==
    { << >>,
      << Target(DocPages, "ABSENT"), Target(0, "NAME") >>,
      << Target(1, "SIGNATURE"), Target(DocPages, "SIGNATURE") >>,
      << Target(0, "SIGNATURE"), Target(DocPages + 2, "DATE"), Target(1, "INITIALS") >> }

\* shouldAutoName / shouldAutoEmail / shouldAutoDate at the time of a commit
MetaInputs ==
    { [name |-> FALSE, email |-> FALSE, date |-> FALSE],
      [name |-> TRUE, email |-> FALSE, date |-> TRUE] }

\* the step at which pdf-lib fails during a commit
LibFailures == { "none", "load", "embed", "save" }

\* apiCreateDocument: the id of the document created from a template
CreatedId(templateId) == IF templateId = "t1" THEN "d1" ELSE "d2"

\* apiCreateSession: the public token of the session of a document
TokenFor(documentId) ==
    CASE documentId = "d0" -> "s0"
      [] documentId = "d1" -> "s1"
      [] OTHER -> "s2"

\* the Blob a load resolves to: the bytes of document doc, held by a new object
LoadedBlob(doc, run) == MkBlob(doc, << >>, << "loaded", run >>)

(***************************************************************************)
(* Template-based editor: the coordinate-fetch effect (hydrateSignatureTargets) *)
(***************************************************************************)
\* the cleanup of the coordinate effect: isCancelled = true in every earlier run
cancelHydRuns(runs) == [ i \in 1 .. Len(runs) |-> [runs[i] EXCEPT !.cancelled = TRUE] ]

\* the coordinate effect body up to its first await, under props p
hydrateBegin(p, runs, sigT, metaT) ==
    IF p.templateId = None
    THEN [ runs |-> runs, sig |-> fallbackTargets(p), meta |-> createEmptyMetadataTargets ]
    ELSE [ runs |-> Append(runs, [cancelled |-> FALSE, pending |-> TRUE,
                                   templateId |-> p.templateId, props |-> p]),
           sig |-> sigT, meta |-> metaT ]

\* fetchSignaturePositions resolved with remoteTargets
HydrateResolve(i, remoteTargets) ==
    /\ editor = "template"
    /\ i \in 1 .. Len(hydRuns)
    /\ hydRuns[i].pending
    /\ hydRuns' = [hydRuns EXCEPT ![i].pending = FALSE]
    /\ IF hydRuns[i].cancelled
       THEN UNCHANGED << signatureTargets, metadataTargets >>
       ELSE /\ metadataTargets' = bucketizeMetadataTargets(remoteTargets)
            /\ signatureTargets' =
                 IF Len(remoteSignatureTargets(remoteTargets)) > 0
                 THEN remoteSignatureTargets(remoteTargets)
                 ELSE fallbackTargets(hydRuns[i].props)
    /\ UNCHANGED << editor, props, enableUndo, mounted, documentIdRef, sessionTokenRef,
                    currentPdfBlob, originalPdfBlob, modifiedPdfBlob, pdfHistory,
                    hasSignature, loading, error, isSubmitting, bootRuns, placing,
                    submitting, netLog, callbackLog, toast >>
    /\ lastPlacement' = Idle
    /\ UNCHANGED << resolution, viewer >>

\* fetchSignaturePositions rejected
HydrateReject(i) ==
    /\ editor = "template"
    /\ i \in 1 .. Len(hydRuns)
    /\ hydRuns[i].pending
    /\ hydRuns' = [hydRuns EXCEPT ![i].pending = FALSE]
    /\ IF hydRuns[i].cancelled
       THEN UNCHANGED << signatureTargets, metadataTargets, toast >>
       ELSE /\ signatureTargets' = fallbackTargets(hydRuns[i].props)
            /\ metadataTargets' = createEmptyMetadataTargets
            /\ toast' = "Failed to fetch signature positions"
    /\ UNCHANGED << editor, props, enableUndo, mounted, documentIdRef, sessionTokenRef,
                    currentPdfBlob, originalPdfBlob, modifiedPdfBlob, pdfHistory,
                    hasSignature, loading, error, isSubmitting, bootRuns, placing,
                    submitting, netLog, callbackLog >>
    /\ lastPlacement' = Idle
    /\ UNCHANGED << resolution, viewer >>

(***************************************************************************)
(* Template-based editor: the document-load effect (bootstrap).            *)
(***************************************************************************)
\* the remote steps of bootstrap, in the order the code awaits them
BootRequests == { "legacy", "createDoc", "createSession", "fetchView" }

\* the cleanup of the load effect: isMounted = false in every earlier run
staleBootRuns(runs) == [ i \in 1 .. Len(runs) |-> [runs[i] EXCEPT !.live = FALSE] ]

\* the request bootstrap awaits once it holds a working document id
afterDocumentId(token) == IF token = None THEN "createSession" ELSE "fetchView"

\* Button.tsx hydrateFromLegacySource: the source it fetches, pdfData if it
\* is given and pdfUrl otherwise
legacySource(p) == IF p.pdfData # None THEN p.pdfData ELSE p.pdfUrl

\* bootstrap up to its first await under props p: the run it starts and the
\* loading / error state it leaves
bootstrapBegin(p, docRef, token, load, err) ==
    LET wdoc == IF docRef # None THEN docRef ELSE p.documentId
        run(pc, w) == [ live |-> TRUE, pc |-> pc, wdoc |-> w, templateId |-> p.templateId,
                        src |-> legacySource(p),
                        failedAt |-> None,
                        issued |-> IF pc \in BootRequests THEN << pc >> ELSE << >> ]
    IN  IF p.pdfData # None \/ p.pdfUrl # None
        THEN [ run |-> run("legacy", None), loading |-> load, error |-> err ]
        ELSE IF p.documentId = None /\ p.templateId = None
        THEN [ run |-> run("noSource", None), loading |-> FALSE,
               error |-> "Provide a documentId, templateId, pdfData, or pdfUrl" ]
        ELSE IF wdoc = None
        THEN [ run |-> run("createDoc", None), loading |-> TRUE, error |-> None ]
        ELSE [ run |-> run(afterDocumentId(token), wdoc), loading |-> TRUE, error |-> None ]

\* the message of the error a failed remote step throws
BootError(pc) ==
    CASE pc = "legacy" -> "Failed to load provided PDF"
      [] pc = "createDoc" -> "Failed to create document"
      [] pc = "createSession" -> "Failed to create session"
      [] pc = "fetchView" -> "Failed to fetch document"

\* the awaited request of run i resolved
BootResolve(i) ==
    /\ editor = "template"
    /\ i \in 1 .. Len(bootRuns)
    /\ bootRuns[i].pc \in BootRequests
    /\ LET run == bootRuns[i] IN
       CASE run.pc = "createDoc" ->
              \* workingDocumentId = created.id; updateDocumentId(created.id)
              /\ documentIdRef' = CreatedId(run.templateId)
              /\ bootRuns' = [bootRuns EXCEPT
                    ![i].wdoc = CreatedId(run.templateId),
                    ![i].pc = afterDocumentId(sessionTokenRef),
                    ![i].issued = Append(@, afterDocumentId(sessionTokenRef))]
              /\ UNCHANGED << sessionTokenRef, currentPdfBlob, originalPdfBlob,
                              modifiedPdfBlob, pdfHistory, hasSignature, loading, error >>
         [] run.pc = "createSession" ->
              \* updateSessionToken(session.tokenPublic)
              /\ sessionTokenRef' = TokenFor(run.wdoc)
              /\ bootRuns' = [bootRuns EXCEPT ![i].pc = "fetchView",
                                               ![i].issued = Append(@, "fetchView")]
              /\ UNCHANGED << documentIdRef, currentPdfBlob, originalPdfBlob,
                              modifiedPdfBlob, pdfHistory, hasSignature, loading, error >>
         [] run.pc \in { "fetchView", "legacy" } ->
              \* applyBlob(blob, { isOriginal: true }); if (isMounted) setError(null);
              \* finally: if (isMounted) setLoading(false)
              /\ SetDocState(applyBlob(DocState,
                     LoadedBlob(IF run.pc = "legacy" THEN run.src ELSE run.wdoc, i),
                     TRUE, TRUE))
              /\ bootRuns' = [bootRuns EXCEPT ![i].pc = "done"]
              /\ error' = IF run.live THEN None ELSE error
              /\ loading' = IF run.live THEN FALSE ELSE loading
              /\ UNCHANGED << documentIdRef, sessionTokenRef >>
    /\ UNCHANGED << editor, props, enableUndo, mounted, signatureTargets, metadataTargets,
                    isSubmitting, hydRuns, placing, submitting, netLog, callbackLog, toast >>
    /\ lastPlacement' = Idle
    /\ UNCHANGED << resolution, viewer >>

\* the catch of bootstrap without the onError call
BootReject_silent(i) ==
    /\ editor = "template"
    /\ i \in 1 .. Len(bootRuns)
    /\ bootRuns[i].pc \in BootRequests
    /\ bootRuns' = [bootRuns EXCEPT ![i].pc = "failed", ![i].failedAt = bootRuns[i].pc]
    /\ IF bootRuns[i].live
       THEN /\ error' = BootError(bootRuns[i].pc)
            /\ UNCHANGED callbackLog
            /\ toast' = IF bootRuns[i].pc = "legacy" THEN BootError("legacy") ELSE "Load failed"
            /\ loading' = FALSE
       ELSE UNCHANGED << error, callbackLog, toast, loading >>
    /\ UNCHANGED << editor, props, enableUndo, mounted, documentIdRef, sessionTokenRef,
                    currentPdfBlob, originalPdfBlob, modifiedPdfBlob, pdfHistory,
                    hasSignature, signatureTargets, metadataTargets, isSubmitting,
                    hydRuns, placing, submitting, netLog >>
    /\ lastPlacement' = Idle
    /\ UNCHANGED << resolution, viewer >>

\* the awaited request of run i rejected: the catch and finally of bootstrap
BootReject(i) ==
    /\ editor = "template"
    /\ i \in 1 .. Len(bootRuns)
    /\ bootRuns[i].pc \in BootRequests
    /\ bootRuns' = [bootRuns EXCEPT ![i].pc = "failed", ![i].failedAt = bootRuns[i].pc]
    /\ IF bootRuns[i].live
       THEN /\ error' = BootError(bootRuns[i].pc)
            /\ callbackLog' = << "onError", BootError(bootRuns[i].pc) >>
            /\ toast' = IF bootRuns[i].pc = "legacy" THEN BootError("legacy") ELSE "Load failed"
            /\ loading' = FALSE
       ELSE UNCHANGED << error, callbackLog, toast, loading >>
    /\ UNCHANGED << editor, props, enableUndo, mounted, documentIdRef, sessionTokenRef,
                    currentPdfBlob, originalPdfBlob, modifiedPdfBlob, pdfHistory,
                    hasSignature, signatureTargets, metadataTargets, isSubmitting,
                    hydRuns, placing, submitting, netLog >>
    /\ lastPlacement' = Idle
    /\ UNCHANGED << resolution, viewer >>

\* the first render of the template-based editor: its effects run in
\* declaration order (coordinates, updateDocumentId, updateSessionToken, bootstrap)
Mount ==
    /\ editor = "template"
    /\ ~mounted
    /\ mounted' = TRUE
    /\ LET h == hydrateBegin(props, hydRuns, signatureTargets, metadataTargets)
           b == bootstrapBegin(props, props.documentId, None, loading, error)
       IN  /\ hydRuns' = h.runs
           /\ signatureTargets' = h.sig
           /\ metadataTargets' = h.meta
           /\ documentIdRef' = props.documentId
           /\ sessionTokenRef' = None
           /\ bootRuns' = Append(bootRuns, b.run)
           /\ loading' = b.loading
           /\ error' = b.error
    /\ UNCHANGED << editor, props, enableUndo, currentPdfBlob, originalPdfBlob,
                    modifiedPdfBlob, pdfHistory, hasSignature, isSubmitting, placing,
                    submitting, netLog, callbackLog, toast >>
    /\ lastPlacement' = Idle
    /\ UNCHANGED << resolution, viewer >>

\* a render with another document source (pdfData, documentId or templateId
\* changed): the cleanups of the effects whose dependencies changed run, then
\* the effects themselves
ChangeProps(q) ==
    /\ editor = "template"
    /\ mounted
    /\ q \in TemplateProps
    /\ q.signaturePosition = props.signaturePosition
    /\ << q.pdfData, q.pdfUrl, q.documentId, q.templateId >>
          # << props.pdfData, props.pdfUrl, props.documentId, props.templateId >>
    /\ Len(bootRuns) < MaxEffectRuns
    /\ props' = q
    /\ LET hydDeps == q.templateId # props.templateId
           docRef == IF q.documentId # props.documentId THEN q.documentId ELSE documentIdRef
           h == IF hydDeps
                THEN hydrateBegin(q, cancelHydRuns(hydRuns), signatureTargets, metadataTargets)
                ELSE [ runs |-> hydRuns, sig |-> signatureTargets, meta |-> metadataTargets ]
           b == bootstrapBegin(q, docRef, sessionTokenRef, loading, error)
       IN  /\ hydRuns' = h.runs
           /\ signatureTargets' = h.sig
           /\ metadataTargets' = h.meta
           /\ documentIdRef' = docRef
           /\ bootRuns' = Append(staleBootRuns(bootRuns), b.run)
           /\ loading' = b.loading
           /\ error' = b.error
    /\ UNCHANGED << editor, enableUndo, mounted, sessionTokenRef, currentPdfBlob,
                    originalPdfBlob, modifiedPdfBlob, pdfHistory, hasSignature,
                    isSubmitting, placing, submitting, netLog, callbackLog, toast >>
    /\ lastPlacement' = Idle
    /\ UNCHANGED << resolution, viewer >>

\* a render in which a dependency of the load effect other than the document
\* source changed (onError, documentMeta, initialSignerName, fetchConfig
\* headers): the cleanup of the effect runs, then bootstrap again
RerunBootstrap ==
    /\ editor = "template"
    /\ mounted
    /\ Len(bootRuns) < MaxEffectRuns
    /\ LET b == bootstrapBegin(props, documentIdRef, sessionTokenRef, loading, error)
       IN  /\ bootRuns' = Append(staleBootRuns(bootRuns), b.run)
           /\ loading' = b.loading
           /\ error' = b.error
    /\ UNCHANGED << editor, props, enableUndo, mounted, documentIdRef, sessionTokenRef,
                    currentPdfBlob, originalPdfBlob, modifiedPdfBlob, pdfHistory,
                    hasSignature, signatureTargets, metadataTargets, isSubmitting,
                    hydRuns, placing, submitting, netLog, callbackLog, toast >>
    /\ lastPlacement' = Idle
    /\ UNCHANGED << resolution, viewer >>

(***************************************************************************)
(* Template-based editor: the handlers.                                    *)
(***************************************************************************)
\* handleAddSignature with saveToHistory() moved above the three checks
handleAddSignature_savesFirst(drawn, meta, sliceThrows) ==
    /\ editor = "template"
    /\ mounted
    /\ Len(pdfHistory) < MaxHistory
    /\ SetDocState(saveToHistory(DocState, currentPdfBlob, sliceThrows))
    /\ IF ~drawn
       THEN toast' = "Please draw your signature" /\ UNCHANGED placing
       ELSE IF Len(signatureTargets) = 0
       THEN toast' = "Signature positions not set" /\ UNCHANGED placing
       ELSE IF currentPdfBlob = NoBlob
       THEN toast' = "PDF not loaded yet" /\ UNCHANGED placing
       ELSE /\ Len(placing) < MaxInFlight
            /\ Len(currentPdfBlob.layers) < MaxLayers
            /\ placing' = Append(placing,
                  [ base |-> currentPdfBlob, mod |-> modifiedPdfBlob,
                    targets |-> signatureTargets, mtargets |-> metadataTargets,
                    meta |-> meta ])
            /\ UNCHANGED toast
    /\ UNCHANGED << editor, props, enableUndo, mounted, documentIdRef, sessionTokenRef,
                    signatureTargets, metadataTargets, loading, error, isSubmitting,
                    bootRuns, hydRuns, submitting, netLog, callbackLog >>
    /\ lastPlacement' = Begun(placing, placing')
    /\ UNCHANGED << resolution, viewer >>

\* Button.tsx handleAddSignature up to its first await. drawn: the pad holds
\* strokes (sigRef.current.isEmpty() is false); meta: the metadata switches of
\* this render; sliceThrows: see saveToHistory
handleAddSignature(drawn, meta, sliceThrows) ==
    /\ editor = "template"
    /\ mounted
    /\ IF ~drawn
       THEN /\ toast' = "Please draw your signature"
            /\ UNCHANGED << currentPdfBlob, originalPdfBlob, modifiedPdfBlob, pdfHistory,
                            hasSignature, placing >>
       ELSE IF Len(signatureTargets) = 0
       THEN /\ toast' = "Signature positions not set"
            /\ UNCHANGED << currentPdfBlob, originalPdfBlob, modifiedPdfBlob, pdfHistory,
                            hasSignature, placing >>
       ELSE IF currentPdfBlob = NoBlob
       THEN /\ toast' = "PDF not loaded yet"
            /\ UNCHANGED << currentPdfBlob, originalPdfBlob, modifiedPdfBlob, pdfHistory,
                            hasSignature, placing >>
       ELSE /\ Len(placing) < MaxInFlight
            /\ Len(pdfHistory) < MaxHistory
            /\ Len(currentPdfBlob.layers) < MaxLayers
            /\ SetDocState(saveToHistory(DocState, currentPdfBlob, sliceThrows))
            /\ placing' = Append(placing,
                  [ base |-> currentPdfBlob, mod |-> modifiedPdfBlob,
                    targets |-> signatureTargets, mtargets |-> metadataTargets,
                    meta |-> meta ])
            /\ UNCHANGED toast
    /\ UNCHANGED << editor, props, enableUndo, mounted, documentIdRef, sessionTokenRef,
                    signatureTargets, metadataTargets, loading, error, isSubmitting,
                    bootRuns, hydRuns, submitting, netLog, callbackLog >>
    /\ lastPlacement' = Begun(placing, placing')
    /\ UNCHANGED << resolution, viewer >>

\* Button.tsx handleAddSignature from its first await to its end: the commit
\* of suspended call i settles; lib: the step at which pdf-lib fails
AddSignatureSettle(i, lib) ==
    /\ editor = "template"
    /\ i \in 1 .. Len(placing)
    /\ placing' = RemoveAt(placing, i)
    /\ IF commitOutcome(placing[i], lib) = "ok"
       THEN \* applyBlob(updatedBlob); sigRef.current.clear(); setHasSignature(true)
            /\ SetDocState([ applyBlob(DocState,
                                savedBlob(placing[i], commitDraws(placing[i])),
                                FALSE, TRUE)
                             EXCEPT !.has = TRUE ])
            /\ toast' = "Signature added!"
       ELSE /\ toast' = commitOutcome(placing[i], lib)
            /\ UNCHANGED << currentPdfBlob, originalPdfBlob, modifiedPdfBlob, pdfHistory,
                            hasSignature >>
    /\ UNCHANGED << editor, props, enableUndo, mounted, documentIdRef, sessionTokenRef,
                    signatureTargets, metadataTargets, loading, error, isSubmitting,
                    bootRuns, hydRuns, submitting, netLog, callbackLog >>
    /\ lastPlacement' = Settled(commitOutcome(placing[i], lib) = "ok")
    /\ UNCHANGED << resolution, viewer >>

\* handleUndo without the return after the notice: setHasSignature(false) runs
handleUndo_emptyClears ==
    /\ editor = "template"
    /\ mounted
    /\ IF Len(pdfHistory) = 0
       THEN /\ toast' = "Nothing to undo"
            /\ hasSignature' = FALSE
            /\ UNCHANGED << currentPdfBlob, originalPdfBlob, modifiedPdfBlob, pdfHistory >>
       ELSE /\ SetDocState(undoPrevious(DocState))
            /\ toast' = "Undone"
    /\ UNCHANGED << editor, props, enableUndo, mounted, documentIdRef, sessionTokenRef,
                    signatureTargets, metadataTargets, loading, error, isSubmitting,
                    bootRuns, hydRuns, placing, submitting, netLog, callbackLog >>
    /\ lastPlacement' = Undone(Len(pdfHistory) > 0)
    /\ UNCHANGED << resolution, viewer >>

\* Button.tsx handleUndo
handleUndo ==
    /\ editor = "template"
    /\ mounted
    /\ IF Len(pdfHistory) = 0
       THEN /\ toast' = "Nothing to undo"
            /\ UNCHANGED << currentPdfBlob, originalPdfBlob, modifiedPdfBlob, pdfHistory,
                            hasSignature >>
       ELSE /\ SetDocState(undoPrevious(DocState))
            /\ toast' = "Undone"
    /\ UNCHANGED << editor, props, enableUndo, mounted, documentIdRef, sessionTokenRef,
                    signatureTargets, metadataTargets, loading, error, isSubmitting,
                    bootRuns, hydRuns, placing, submitting, netLog, callbackLog >>
    /\ lastPlacement' = Undone(Len(pdfHistory) > 0)
    /\ UNCHANGED << resolution, viewer >>

\* Button.tsx handleReset (a call without an original snapshot returns at once)
handleReset ==
    /\ editor = "template"
    /\ mounted
    /\ originalPdfBlob # NoBlob
    /\ SetDocState(resetToOriginal(DocState))
    /\ toast' = "Document reset"
    /\ UNCHANGED << editor, props, enableUndo, mounted, documentIdRef, sessionTokenRef,
                    signatureTargets, metadataTargets, loading, error, isSubmitting,
                    bootRuns, hydRuns, placing, submitting, netLog, callbackLog >>
    /\ lastPlacement' = Reset
    /\ UNCHANGED << resolution, viewer >>

\* the branch chosen by the session token alone
submitPath_tokenOnly(endpoint, token) ==
    IF token # None THEN "session" ELSE "document"

\* Button.tsx handleSubmit: the branch of the if at line 772
submitPath(endpoint, token) ==
    IF ~endpoint /\ token # None THEN "session" ELSE "document"

\* handleSubmit without its first guard
handleSubmit_unguarded(endpoint) ==
    /\ editor = "template"
    /\ mounted
    /\ IF ~endpoint /\ sessionTokenRef = None /\ documentIdRef = None
       THEN /\ toast' = "No submission endpoint configured"
            /\ UNCHANGED << isSubmitting, submitting, netLog >>
       ELSE /\ Len(submitting) < MaxSubmitsInFlight
            /\ Len(netLog) + Len(submitting) < MaxSubmits
            /\ isSubmitting' = TRUE
            /\ LET path == submitPath(endpoint, sessionTokenRef) IN
               \* the session path first awaits blobToBase64; the document path
               \* (form-data) goes straight to the request
               /\ submitting' = Append(submitting,
                     [ path |-> path, blob |-> modifiedPdfBlob,
                       pc |-> IF path = "session" THEN "encode" ELSE "sent" ])
               /\ netLog' = IF path = "session" THEN netLog ELSE Append(netLog, path)
            /\ UNCHANGED toast
    /\ UNCHANGED << editor, props, enableUndo, mounted, documentIdRef, sessionTokenRef,
                    currentPdfBlob, originalPdfBlob, modifiedPdfBlob, pdfHistory,
                    hasSignature, signatureTargets, metadataTargets, loading, error,
                    bootRuns, hydRuns, placing, callbackLog >>
    /\ lastPlacement' = Idle
    /\ UNCHANGED << resolution, viewer >>

\* Button.tsx handleSubmit up to its first await; endpoint: signConfig.endpoint is set
handleSubmit(endpoint) ==
    /\ editor = "template"
    /\ mounted
    /\ IF modifiedPdfBlob = NoBlob
       THEN /\ toast' = "Please add your signature before submitting"
            /\ UNCHANGED << isSubmitting, submitting, netLog >>
       ELSE IF ~endpoint /\ sessionTokenRef = None /\ documentIdRef = None
       THEN /\ toast' = "No submission endpoint configured"
            /\ UNCHANGED << isSubmitting, submitting, netLog >>
       ELSE /\ Len(submitting) < MaxSubmitsInFlight
            /\ Len(netLog) + Len(submitting) < MaxSubmits
            /\ isSubmitting' = TRUE
            /\ LET path == submitPath(endpoint, sessionTokenRef) IN
               \* the session path first awaits blobToBase64; the document path
               \* (form-data) goes straight to the request
               /\ submitting' = Append(submitting,
                     [ path |-> path, blob |-> modifiedPdfBlob,
                       pc |-> IF path = "session" THEN "encode" ELSE "sent" ])
               /\ netLog' = IF path = "session" THEN netLog ELSE Append(netLog, path)
            /\ UNCHANGED toast
    /\ UNCHANGED << editor, props, enableUndo, mounted, documentIdRef, sessionTokenRef,
                    currentPdfBlob, originalPdfBlob, modifiedPdfBlob, pdfHistory,
                    hasSignature, signatureTargets, metadataTargets, loading, error,
                    bootRuns, hydRuns, placing, callbackLog >>
    /\ lastPlacement' = Idle
    /\ UNCHANGED << resolution, viewer >>

\* blobToBase64 resolved in suspended submit i: submitSignedPdfToSession sends
SubmitEncoded(i) ==
    /\ editor = "template"
    /\ i \in 1 .. Len(submitting)
    /\ submitting[i].pc = "encode"
    /\ submitting' = [submitting EXCEPT ![i].pc = "sent"]
    /\ netLog' = Append(netLog, submitting[i].path)
    /\ UNCHANGED << editor, props, enableUndo, mounted, documentIdRef, sessionTokenRef,
                    currentPdfBlob, originalPdfBlob, modifiedPdfBlob, pdfHistory,
                    hasSignature, signatureTargets, metadataTargets, loading, error,
                    isSubmitting, bootRuns, hydRuns, placing, callbackLog, toast >>
    /\ lastPlacement' = Idle
    /\ UNCHANGED << resolution, viewer >>

\* the request of suspended submit i acknowledged: onSuccess, then finally
SubmitResolve(i) ==
    /\ editor = "template"
    /\ i \in 1 .. Len(submitting)
    /\ submitting[i].pc = "sent"
    /\ submitting' = RemoveAt(submitting, i)
    /\ callbackLog' = << "onSuccess", submitting[i].path >>
    /\ toast' = "Document signed successfully"
    /\ isSubmitting' = FALSE
    /\ UNCHANGED << editor, props, enableUndo, mounted, documentIdRef, sessionTokenRef,
                    currentPdfBlob, originalPdfBlob, modifiedPdfBlob, pdfHistory,
                    hasSignature, signatureTargets, metadataTargets, loading, error,
                    bootRuns, hydRuns, placing, netLog >>
    /\ lastPlacement' = Idle
    /\ UNCHANGED << resolution, viewer >>

\* the catch of handleSubmit dropping the signed bytes
SubmitReject_dropsSigned(i) ==
    /\ editor = "template"
    /\ i \in 1 .. Len(submitting)
    /\ submitting' = RemoveAt(submitting, i)
    /\ callbackLog' = << "onError", "Submit failed" >>
    /\ toast' = "Submit failed"
    /\ isSubmitting' = FALSE
    /\ modifiedPdfBlob' = NoBlob
    /\ UNCHANGED << editor, props, enableUndo, mounted, documentIdRef, sessionTokenRef,
                    currentPdfBlob, originalPdfBlob, pdfHistory,
                    hasSignature, signatureTargets, metadataTargets, loading, error,
                    bootRuns, hydRuns, placing, netLog >>
    /\ lastPlacement' = Idle
    /\ UNCHANGED << resolution, viewer >>

\* the awaited call of suspended submit i rejected (blobToBase64 or the
\* request): the catch, then finally
SubmitReject(i) ==
    /\ editor = "template"
    /\ i \in 1 .. Len(submitting)
    /\ submitting' = RemoveAt(submitting, i)
    /\ callbackLog' = << "onError", "Submit failed" >>
    /\ toast' = "Submit failed"
    /\ isSubmitting' = FALSE
    /\ UNCHANGED << editor, props, enableUndo, mounted, documentIdRef, sessionTokenRef,
                    currentPdfBlob, originalPdfBlob, modifiedPdfBlob, pdfHistory,
                    hasSignature, signatureTargets, metadataTargets, loading, error,
                    bootRuns, hydRuns, placing, netLog >>
    /\ lastPlacement' = Idle
    /\ UNCHANGED << resolution, viewer >>

(***************************************************************************)
(* Fixed-position editor (src/src/PDFSignatureEditor.tsx).  Its `pdf` and  *)
(* `originalPdf` are held in currentPdfBlob and originalPdfBlob; a history *)
(* entry is the pair { pdf, blob } of saveToHistory.                       *)
(***************************************************************************)
\* the props of the fixed-position editor; signaturePosition.page is used as
\* a 0-based index, so page DocPages is off the document
FixedProps ==
    { [pdfData |-> "p0", pdfUrl |-> None, signaturePosition |-> << 0 >>, enableDragDrop |-> FALSE,
       namePosition |-> << 1 >>, emailPosition |-> << >>, datePosition |-> << >>],
      [pdfData |-> "p0", pdfUrl |-> "u0", signaturePosition |-> << DocPages >>, enableDragDrop |-> FALSE,
       namePosition |-> << >>, emailPosition |-> << >>, datePosition |-> << >>],
      [pdfData |-> "p0", pdfUrl |-> None, signaturePosition |-> << >>, enableDragDrop |-> FALSE,
       namePosition |-> << >>, emailPosition |-> << >>, datePosition |-> << 0 >>],
      [pdfData |-> None, pdfUrl |-> "u0", signaturePosition |-> << DocPages - 1 >>, enableDragDrop |-> FALSE,
       namePosition |-> << 0 >>, emailPosition |-> << 0 >>, datePosition |-> << DocPages - 1 >>],
      [pdfData |-> None, pdfUrl |-> "u0", signaturePosition |-> << >>, enableDragDrop |-> TRUE,
       namePosition |-> << >>, emailPosition |-> << >>, datePosition |-> << >>],
      [pdfData |-> None, pdfUrl |-> None, signaturePosition |-> << 0 >>, enableDragDrop |-> FALSE,
       namePosition |-> << >>, emailPosition |-> << >>, datePosition |-> << >>],
      [pdfData |-> "p1", pdfUrl |-> None, signaturePosition |-> << 0 >>, enableDragDrop |-> FALSE,
       namePosition |-> << >>, emailPosition |-> << >>, datePosition |-> << >>] }

\* the object URL or data URL a string `pdf` names: the bytes behind it
UrlOf(doc, layers) == MkBlob(doc, layers, << "url", 0 >>)

\* loadPDF trying pdfUrl before pdfData
loadPDFBegin_urlFirst(p, s, runs) ==
    IF p.pdfUrl # None
    THEN [ doc |-> s,
           runs |-> Append(runs, [ live |-> TRUE, pc |-> "fetchUrl", wdoc |-> None,
                                   templateId |-> None, src |-> p.pdfUrl,
                                   failedAt |-> None, issued |-> << "fetchUrl" >> ]),
           loading |-> TRUE, error |-> None, failed |-> FALSE ]
    ELSE IF p.pdfData # None
    THEN [ doc |-> [s EXCEPT !.cur = UrlOf(p.pdfData, << >>), !.orig = UrlOf(p.pdfData, << >>)],
           runs |-> runs, loading |-> FALSE, error |-> None, failed |-> FALSE ]
    ELSE [ doc |-> s, runs |-> runs, loading |-> FALSE,
           error |-> "No PDF data provided", failed |-> TRUE ]

\* PDFSignatureEditor.tsx loadPDF up to its first await under props p: the
\* state it leaves and the fetch it awaits, if any
loadPDFBegin(p, s, runs) ==
    IF p.pdfData # None
    THEN [ doc |-> [s EXCEPT !.cur = UrlOf(p.pdfData, << >>), !.orig = UrlOf(p.pdfData, << >>)],
           runs |-> runs, loading |-> FALSE, error |-> None, failed |-> FALSE ]
    ELSE IF p.pdfUrl # None
    THEN [ doc |-> s,
           runs |-> Append(runs, [ live |-> TRUE, pc |-> "fetchUrl", wdoc |-> None,
                                   templateId |-> None, src |-> p.pdfUrl,
                                   failedAt |-> None, issued |-> << "fetchUrl" >> ]),
           loading |-> TRUE, error |-> None, failed |-> FALSE ]
    ELSE [ doc |-> s, runs |-> runs, loading |-> FALSE,
           error |-> "No PDF data provided", failed |-> TRUE ]

\* the first render of the fixed-position editor: the loadPDF effect runs
FixedMount ==
    /\ editor = "fixed"
    /\ ~mounted
    /\ mounted' = TRUE
    /\ LET l == loadPDFBegin(props, DocState, bootRuns) IN
       /\ SetDocState(l.doc)
       /\ bootRuns' = l.runs
       /\ loading' = l.loading
       /\ error' = l.error
       /\ callbackLog' = IF l.failed THEN << "onLoadError", l.error >> ELSE callbackLog
    /\ UNCHANGED << editor, props, enableUndo, documentIdRef, sessionTokenRef,
                    signatureTargets, metadataTargets, isSubmitting, hydRuns, placing,
                    submitting, netLog, toast >>
    /\ lastPlacement' = Idle
    /\ UNCHANGED << resolution, viewer >>

\* a render with another pdfData / pdfUrl: the loadPDF effect runs again
FixedChangeProps(q) ==
    /\ editor = "fixed"
    /\ mounted
    /\ q \in FixedProps
    /\ << q.pdfData, q.pdfUrl >> # << props.pdfData, props.pdfUrl >>
    /\ Len(bootRuns) < MaxEffectRuns
    /\ props' = q
    /\ LET l == loadPDFBegin(q, DocState, staleBootRuns(bootRuns)) IN
       /\ SetDocState(l.doc)
       /\ bootRuns' = l.runs
       /\ loading' = l.loading
       /\ error' = l.error
       /\ callbackLog' = IF l.failed THEN << "onLoadError", l.error >> ELSE callbackLog
    /\ UNCHANGED << editor, enableUndo, mounted, documentIdRef, sessionTokenRef,
                    signatureTargets, metadataTargets, isSubmitting, hydRuns, placing,
                    submitting, netLog, toast >>
    /\ lastPlacement' = Idle
    /\ UNCHANGED << resolution, viewer >>

\* loadPDF: fetch(pdfUrl) resolved with a valid PDF
FixedLoadResolve(i) ==
    /\ editor = "fixed"
    /\ i \in 1 .. Len(bootRuns)
    /\ bootRuns[i].pc = "fetchUrl"
    /\ bootRuns' = [bootRuns EXCEPT ![i].pc = "done"]
    /\ currentPdfBlob' = UrlOf(bootRuns[i].src, << >>)
    /\ originalPdfBlob' = UrlOf(bootRuns[i].src, << >>)
    /\ loading' = FALSE
    /\ UNCHANGED << editor, props, enableUndo, mounted, documentIdRef, sessionTokenRef,
                    modifiedPdfBlob, pdfHistory, hasSignature, signatureTargets,
                    metadataTargets, error, isSubmitting, hydRuns, placing, submitting,
                    netLog, callbackLog, toast >>
    /\ lastPlacement' = Idle
    /\ UNCHANGED << resolution, viewer >>

\* loadPDF: the fetch failed, or the bytes lack the %PDF- header
FixedLoadReject(i) ==
    /\ editor = "fixed"
    /\ i \in 1 .. Len(bootRuns)
    /\ bootRuns[i].pc = "fetchUrl"
    /\ bootRuns' = [bootRuns EXCEPT ![i].pc = "failed", ![i].failedAt = "fetchUrl"]
    /\ error' = "Failed to load PDF"
    /\ loading' = FALSE
    /\ callbackLog' = << "onLoadError", "Failed to load PDF" >>
    /\ UNCHANGED << editor, props, enableUndo, mounted, documentIdRef, sessionTokenRef,
                    currentPdfBlob, originalPdfBlob, modifiedPdfBlob, pdfHistory,
                    hasSignature, signatureTargets, metadataTargets, isSubmitting,
                    hydRuns, placing, submitting, netLog, toast >>
    /\ lastPlacement' = Idle
    /\ UNCHANGED << resolution, viewer >>

\* saveToHistory pushing whether or not undo is enabled
fixedSaveToHistory_ignoresFlag(hist, pdf, blob) ==
    IF pdf # NoBlob THEN Append(hist, [pdf |-> pdf, blob |-> blob]) ELSE hist

\* PDFSignatureEditor.tsx saveToHistory; pdf and blob are the `pdf` and
\* `modifiedPdfBlob` of the closure
fixedSaveToHistory(hist, pdf, blob) ==
    IF pdf # NoBlob /\ enableUndo THEN Append(hist, [pdf |-> pdf, blob |-> blob]) ELSE hist

\* PDFSignatureEditor.tsx handleAddSignature: pageIndex
fixedPageIndex(position) == IF position # << >> THEN position[1] ELSE 0

\* PDFSignatureEditor.tsx handleAddSignature: x and y of the signature, taken
\* from signaturePosition or, without it, from the default (50, height - 150)
fixedAnchor(position) ==
    IF position # << >> THEN Target(position[1], "SIGNATURE") ELSE Target(0, "DEFAULT")

\* PDFSignatureEditor.tsx handleAddSignature: the text lines under the
\* signature, in the order drawn (email and name when not blank, date always)
fixedLines(meta) ==
    (IF meta.email THEN << "EMAIL" >> ELSE << >>)
      \o (IF meta.name THEN << "NAME" >> ELSE << >>)
      \o << "DATE" >>

\* PDFSignatureEditor.tsx handleAddSignature: sigHeight and lineHeight
sigHeight == 65
fixedLineHeight == 10

\* PDFSignatureEditor.tsx handleAddSignature: the image, then the email, name
\* and date lines under it, all on the target page
fixedDraws(task) ==
    LET idx == fixedPageIndex(task.targets) IN
    << DrawOp("image", "SIGNATURE", idx, fixedAnchor(task.targets), 0, 0) >>
      \o [ k \in 1 .. Len(fixedLines(task.meta)) |->
             DrawOp("fallback", fixedLines(task.meta)[k], idx,
                    fixedAnchor(task.targets), k, 0 - sigHeight - fixedLineHeight * k) ]

\* PDFSignatureEditor.tsx handleAddSignature after its first await: "ok" or
\* the failure caught
fixedOutcome(task, lib) ==
    IF lib = "load" THEN "Failed to add signature"
    ELSE IF ~PageExists(fixedPageIndex(task.targets), NumPages(task.base))
         THEN "Failed to add signature"
    ELSE IF lib \in { "embed", "save" } THEN "Failed to add signature"
    ELSE "ok"

\* PDFSignatureEditor.tsx handleAddSignature up to its first await
FixedHandleAddSignature(drawn, meta) ==
    /\ editor = "fixed"
    /\ mounted
    /\ IF ~drawn
       THEN toast' = "Please draw your signature" /\ UNCHANGED placing
       ELSE IF props.signaturePosition = << >> /\ ~props.enableDragDrop
       THEN toast' = "Signature position not configured" /\ UNCHANGED placing
       ELSE IF currentPdfBlob = NoBlob
       THEN toast' = "Please wait for PDF to load" /\ UNCHANGED placing
       ELSE /\ Len(placing) < MaxInFlight
            /\ Len(pdfHistory) < MaxHistory
            /\ Len(currentPdfBlob.layers) < MaxLayers
            /\ placing' = Append(placing,
                  [ base |-> currentPdfBlob, mod |-> modifiedPdfBlob,
                    targets |-> props.signaturePosition,
                    mtargets |-> createEmptyMetadataTargets, meta |-> meta ])
            /\ UNCHANGED toast
    /\ UNCHANGED << editor, props, enableUndo, mounted, documentIdRef, sessionTokenRef,
                    currentPdfBlob, originalPdfBlob, modifiedPdfBlob, pdfHistory,
                    hasSignature, signatureTargets, metadataTargets, loading, error,
                    isSubmitting, bootRuns, hydRuns, submitting, netLog, callbackLog >>
    /\ lastPlacement' = Begun(placing, placing')
    /\ UNCHANGED << resolution, viewer >>

\* PDFSignatureEditor.tsx handleAddSignature from its first await to its end
FixedAddSignatureSettle(i, lib) ==
    /\ editor = "fixed"
    /\ i \in 1 .. Len(placing)
    /\ placing' = RemoveAt(placing, i)
    /\ IF fixedOutcome(placing[i], lib) = "ok"
       THEN \* saveToHistory(); setPdf(url); setModifiedPdfBlob(blob)
            /\ pdfHistory' = fixedSaveToHistory(pdfHistory, placing[i].base, placing[i].mod)
            /\ currentPdfBlob' = UrlOf(placing[i].base.doc,
                                       Append(placing[i].base.layers, fixedDraws(placing[i])))
            /\ modifiedPdfBlob' = savedBlob(placing[i], fixedDraws(placing[i]))
            /\ toast' = "Signature added successfully!"
       ELSE /\ toast' = fixedOutcome(placing[i], lib)
            /\ UNCHANGED << currentPdfBlob, modifiedPdfBlob, pdfHistory >>
    /\ UNCHANGED << editor, props, enableUndo, mounted, documentIdRef, sessionTokenRef,
                    originalPdfBlob, hasSignature, signatureTargets, metadataTargets,
                    loading, error, isSubmitting, bootRuns, hydRuns, submitting, netLog,
                    callbackLog >>
    /\ lastPlacement' = Settled(fixedOutcome(placing[i], lib) = "ok")
    /\ UNCHANGED << resolution, viewer >>

\* PDFSignatureEditor.tsx handleUndo
FixedHandleUndo ==
    /\ editor = "fixed"
    /\ mounted
    /\ IF Len(pdfHistory) = 0
       THEN /\ toast' = "Nothing to undo"
            /\ UNCHANGED << currentPdfBlob, modifiedPdfBlob, pdfHistory >>
       ELSE /\ currentPdfBlob' = pdfHistory[Len(pdfHistory)].pdf
            /\ modifiedPdfBlob' = pdfHistory[Len(pdfHistory)].blob
            /\ pdfHistory' = SubSeq(pdfHistory, 1, Len(pdfHistory) - 1)
            /\ toast' = "Last action undone"
    /\ UNCHANGED << editor, props, enableUndo, mounted, documentIdRef, sessionTokenRef,
                    originalPdfBlob, hasSignature, signatureTargets, metadataTargets,
                    loading, error, isSubmitting, bootRuns, hydRuns, placing, submitting,
                    netLog, callbackLog >>
    /\ lastPlacement' = Undone(Len(pdfHistory) > 0)
    /\ UNCHANGED << resolution, viewer >>

\* PDFSignatureEditor.tsx handleReset (a call without originalPdf does nothing)
FixedHandleReset ==
    /\ editor = "fixed"
    /\ mounted
    /\ originalPdfBlob # NoBlob
    /\ currentPdfBlob' = originalPdfBlob
    /\ modifiedPdfBlob' = NoBlob
    /\ pdfHistory' = << >>
    /\ toast' = "Document reset to original state"
    /\ UNCHANGED << editor, props, enableUndo, mounted, documentIdRef, sessionTokenRef,
                    originalPdfBlob, hasSignature, signatureTargets, metadataTargets,
                    loading, error, isSubmitting, bootRuns, hydRuns, placing, submitting,
                    netLog, callbackLog >>
    /\ lastPlacement' = Reset
    /\ viewer' = [viewer EXCEPT !.pageNum = 0]
    /\ UNCHANGED resolution

\* PDFSignatureEditor.tsx handleSubmitSignedDocument up to its first await;
\* onSubmit: the caller gave the onSubmit prop
FixedHandleSubmit(onSubmit) ==
    /\ editor = "fixed"
    /\ mounted
    /\ IF modifiedPdfBlob = NoBlob
       THEN /\ toast' = "Please add your signature first"
            /\ UNCHANGED << isSubmitting, submitting, netLog, callbackLog >>
       ELSE /\ Len(submitting) < MaxSubmitsInFlight
            /\ Len(netLog) + Len(submitting) < MaxSubmits
            /\ isSubmitting' = TRUE
            /\ submitting' = Append(submitting,
                  [ path |-> IF onSubmit THEN "onSubmit" ELSE "backend",
                    blob |-> modifiedPdfBlob, pc |-> "sent" ])
            /\ netLog' = IF onSubmit THEN netLog ELSE Append(netLog, "backend")
            /\ callbackLog' = IF onSubmit THEN << "onSubmit", Bytes(modifiedPdfBlob) >>
                              ELSE callbackLog
            /\ UNCHANGED toast
    /\ UNCHANGED << editor, props, enableUndo, mounted, documentIdRef, sessionTokenRef,
                    currentPdfBlob, originalPdfBlob, modifiedPdfBlob, pdfHistory,
                    hasSignature, signatureTargets, metadataTargets, loading, error,
                    bootRuns, hydRuns, placing >>
    /\ lastPlacement' = Idle
    /\ UNCHANGED << resolution, viewer >>

\* the awaited onSubmit promise or backend request of submit i resolved
FixedSubmitResolve(i) ==
    /\ editor = "fixed"
    /\ i \in 1 .. Len(submitting)
    /\ submitting' = RemoveAt(submitting, i)
    /\ toast' = IF submitting[i].path = "backend"
                THEN "Document submitted successfully!" ELSE toast
    /\ isSubmitting' = FALSE
    /\ UNCHANGED << editor, props, enableUndo, mounted, documentIdRef, sessionTokenRef,
                    currentPdfBlob, originalPdfBlob, modifiedPdfBlob, pdfHistory,
                    hasSignature, signatureTargets, metadataTargets, loading, error,
                    bootRuns, hydRuns, placing, netLog, callbackLog >>
    /\ lastPlacement' = Idle
    /\ UNCHANGED << resolution, viewer >>

\* handleSubmitSignedDocument without its finally block
FixedSubmitReject_noFinally(i) ==
    /\ editor = "fixed"
    /\ i \in 1 .. Len(submitting)
    /\ submitting' = RemoveAt(submitting, i)
    /\ toast' = "Failed to submit"
    /\ UNCHANGED << editor, props, enableUndo, mounted, documentIdRef, sessionTokenRef,
                    currentPdfBlob, originalPdfBlob, modifiedPdfBlob, pdfHistory,
                    hasSignature, signatureTargets, metadataTargets, loading, error,
                    isSubmitting, bootRuns, hydRuns, placing, netLog, callbackLog >>
    /\ lastPlacement' = Idle
    /\ UNCHANGED << resolution, viewer >>

\* the awaited onSubmit promise or backend request of submit i rejected
FixedSubmitReject(i) ==
    /\ editor = "fixed"
    /\ i \in 1 .. Len(submitting)
    /\ submitting' = RemoveAt(submitting, i)
    /\ toast' = "Failed to submit"
    /\ isSubmitting' = FALSE
    /\ UNCHANGED << editor, props, enableUndo, mounted, documentIdRef, sessionTokenRef,
                    currentPdfBlob, originalPdfBlob, modifiedPdfBlob, pdfHistory,
                    hasSignature, signatureTargets, metadataTargets, loading, error,
                    bootRuns, hydRuns, placing, netLog, callbackLog >>
    /\ lastPlacement' = Idle
    /\ UNCHANGED << resolution, viewer >>

(***************************************************************************)
(* The controls that trigger a placement.                                  *)
(***************************************************************************)
\* Button.tsx: the Place Signature button is enabled
\* (disabled = !hasSignatureTargets || !!hasSignature)
placeSignatureEnabled == Len(signatureTargets) > 0 /\ ~hasSignature

\* PDFSignatureEditor.tsx: the Add Signature button, which opens the dialog that
\* calls handleAddSignature, is enabled (disabled = !signaturePosition && !enableDragDrop)
addSignatureEnabled == props.signaturePosition # << >> \/ props.enableDragDrop

(***************************************************************************)
(* fetchSignaturePositions: the mapping of one entry of the coordinates    *)
(* response to an ElementPosition. Spans are counted in 1/17 pt and the    *)
(* resolved coordinates in 1/1700 pt, so that percent / 100 * span and the *)
(* reference height 600 * 11 / 8.5 are whole numbers.                      *)
(***************************************************************************)
\* the upper end of a percentage (Math.min(..., 100); value <= 100; percent / 100)
PercentFull == 100

\* LETTER_ASPECT_RATIO = 11 / 8.5 = 22 / 17
LetterRatioNum == 22
LetterRatioDen == 17

\* a span of pt points, in 1/17 pt
Span(pt) == pt * LetterRatioDen

\* a length of pt points, in 1/1700 pt
Points(pt) == pt * LetterRatioDen * PercentFull

\* COORDINATE_REFERENCE_WIDTH = 600, as a span
COORDINATE_REFERENCE_WIDTH == Span(600)

\* COORDINATE_REFERENCE_HEIGHT = COORDINATE_REFERENCE_WIDTH * LETTER_ASPECT_RATIO
COORDINATE_REFERENCE_HEIGHT == (COORDINATE_REFERENCE_WIDTH * LetterRatioNum) \div LetterRatioDen

\* an optional number: << >> for undefined, << v >> for v
Undefined == << >>
Defined(v) == << v >>

\* the module-level percentToPoint (part_002 120-127): a non-number gives 0,
\* the value is clamped to 0 .. 100
percentToPoint(value, span) ==
    IF value = Undefined THEN 0
    ELSE LET normalized == IF value[1] < 0 THEN 0
                           ELSE IF value[1] > PercentFull THEN PercentFull
                           ELSE value[1]
         IN  normalized * span

\* normalizeDimension of part_002: a value above 100 is in points already
normalizeDimension(value, span) ==
    IF value = Undefined THEN Undefined
    ELSE IF value[1] > PercentFull THEN Defined(Points(value[1]))
    ELSE Defined(percentToPoint(value, span))

\* fetchSignaturePositions of part_002 on one entry; pageMetrics is the optional
\* third argument (Button.tsx passes none)
fetchSignaturePositions(entry, pageMetrics) ==
    LET referenceWidth == IF pageMetrics = Undefined THEN COORDINATE_REFERENCE_WIDTH
                          ELSE Span(pageMetrics[1].width)
        referenceHeight == IF pageMetrics = Undefined THEN COORDINATE_REFERENCE_HEIGHT
                           ELSE Span(pageMetrics[1].height)
    IN  [ thrown |-> None,
          positions |->
            << [ x |-> percentToPoint(entry.x, referenceWidth),
                 y |-> percentToPoint(entry.y, referenceHeight),
                 width |-> normalizeDimension(entry.width, referenceWidth),
                 height |-> normalizeDimension(entry.height, referenceHeight),
                 page |-> IF entry.pageNumber = Undefined THEN 1
                          ELSE entry.pageNumber[1] ] >> ]

\* the percentToPoint local to fetchSignaturePositions of part_001: no clamp
percentToPointLocal(percent, total) == percent * total

\* normalizeDimension of part_001
normalizeDimensionLocal(value, max) ==
    IF value = Undefined THEN Undefined
    ELSE IF value[1] <= PercentFull THEN Defined(percentToPointLocal(value[1], max))
    ELSE Defined(Points(value[1]))

\* the message of the error thrown for a page without metrics
MissingPageMetrics == "Missing page metrics"

\* fetchSignaturePositions of part_001 on one entry; pageMetrics is the array
\* of page sizes (Undefined: the argument is omitted and indexing it throws)
fetchSignaturePositionsPerPage(entry, pageMetrics) ==
    LET x == IF entry.x = Undefined THEN 0 ELSE entry.x[1]
        y == IF entry.y = Undefined THEN 0 ELSE entry.y[1]
        page == IF entry.pageNumber = Undefined THEN 1 ELSE entry.pageNumber[1]
    IN  IF pageMetrics = Undefined
        THEN [ thrown |-> "TypeError", positions |-> << >> ]
        ELSE IF page \notin 1 .. Len(pageMetrics[1])
        THEN [ thrown |-> MissingPageMetrics, positions |-> << >> ]
        ELSE LET pdfWidth == Span(pageMetrics[1][page].width)
                 pdfHeight == Span(pageMetrics[1][page].height)
                 isPercent == x <= PercentFull /\ y <= PercentFull
                 absHeight == normalizeDimensionLocal(entry.height, pdfHeight)
                 h == IF absHeight = Undefined THEN 0 ELSE absHeight[1]
             IN  [ thrown |-> None,
                   positions |->
                     << [ x |-> IF isPercent THEN percentToPointLocal(x, pdfWidth)
                                ELSE x * PercentFull * pdfWidth,
                          y |-> IF isPercent
                                THEN PercentFull * pdfHeight
                                       - percentToPointLocal(y, pdfHeight) - h
                                ELSE y * PercentFull * pdfHeight,
                          width |-> normalizeDimensionLocal(entry.width, pdfWidth),
                          height |-> absHeight,
                          page |-> page ] >> ]

\* the sizes of the pages of the document, in points: Letter, then A4 landscape
PageSizes == << [width |-> 612, height |-> 792], [width |-> 842, height |-> 595] >>

\* the entries a coordinates response may hold
RawEntries ==
    [ x : { Undefined, Defined(-10), Defined(0), Defined(50), Defined(100), Defined(150) },
      y : { Defined(0), Defined(50), Defined(95), Defined(100) },
      width : { Undefined, Defined(20) },
      height : { Undefined, Defined(0), Defined(10), Defined(200) },
      pageNumber : { Undefined, Defined(2), Defined(3) } ]

\* no response is being mapped
NoResolution ==
    [ entries |-> << >>, pageMetrics |-> Undefined, by |-> None, thrown |-> None,
      positions |-> << >> ]

\* part_002: the entry of the response is mapped
ResolveEntry(pageMetrics) ==
    /\ resolution.entries # << >>
    /\ resolution.by = None
    /\ resolution' = [ resolution EXCEPT
                         !.pageMetrics = pageMetrics, !.by = "part_002",
                         !.thrown =
                            fetchSignaturePositions(resolution.entries[1], pageMetrics).thrown,
                         !.positions =
                            fetchSignaturePositions(resolution.entries[1], pageMetrics).positions ]
    /\ UNCHANGED << editor, props, enableUndo, mounted, documentIdRef, sessionTokenRef,
                    currentPdfBlob, originalPdfBlob, modifiedPdfBlob, pdfHistory,
                    hasSignature, signatureTargets, metadataTargets, loading, error,
                    isSubmitting, bootRuns, hydRuns, placing, submitting, netLog,
                    callbackLog, toast, lastPlacement, viewer >>

\* part_001: the entry of the response is mapped
ResolveEntryPerPage(pageMetrics) ==
    /\ resolution.entries # << >>
    /\ resolution.by = None
    /\ resolution' = [ resolution EXCEPT
                         !.pageMetrics = pageMetrics, !.by = "part_001",
                         !.thrown =
                            fetchSignaturePositionsPerPage(resolution.entries[1],
                                                           pageMetrics).thrown,
                         !.positions =
                            fetchSignaturePositionsPerPage(resolution.entries[1],
                                                           pageMetrics).positions ]
    /\ UNCHANGED << editor, props, enableUndo, mounted, documentIdRef, sessionTokenRef,
                    currentPdfBlob, originalPdfBlob, modifiedPdfBlob, pdfHistory,
                    hasSignature, signatureTargets, metadataTargets, loading, error,
                    isSubmitting, bootRuns, hydRuns, placing, submitting, netLog,
                    callbackLog, toast, lastPlacement, viewer >>

(***************************************************************************)
(* The specifications.  The three parts of an instance (editing, loading   *)
(* under changing props, submitting) multiply each other's states, so each *)
(* specification runs the actions of one part on top of mount and load.    *)
(***************************************************************************)
\* the template-based editor after its useState initialisers, before its effects
InitTemplate ==
    /\ editor = "template"
    /\ props \in TemplateProps
    /\ enableUndo \in BOOLEAN
    /\ mounted = FALSE
    /\ documentIdRef = props.documentId
    /\ sessionTokenRef = None
    /\ currentPdfBlob = NoBlob
    /\ originalPdfBlob = NoBlob
    /\ modifiedPdfBlob = NoBlob
    /\ pdfHistory = << >>
    /\ hasSignature = FALSE
    /\ signatureTargets = fallbackTargets(props)
    /\ metadataTargets = createEmptyMetadataTargets
    /\ loading = TRUE
    /\ error = None
    /\ isSubmitting = FALSE
    /\ bootRuns = << >>
    /\ hydRuns = << >>
    /\ placing = << >>
    /\ submitting = << >>
    /\ netLog = << >>
    /\ callbackLog = << >>
    /\ toast = None
    /\ lastPlacement = Idle
    /\ resolution = NoResolution
    /\ viewer = NoViewer

\* the fixed-position editor after its useState initialisers, before its effects
InitFixed ==
    /\ editor = "fixed"
    /\ props \in FixedProps
    /\ enableUndo \in BOOLEAN
    /\ mounted = FALSE
    /\ documentIdRef = None
    /\ sessionTokenRef = None
    /\ currentPdfBlob = NoBlob
    /\ originalPdfBlob = NoBlob
    /\ modifiedPdfBlob = NoBlob
    /\ pdfHistory = << >>
    /\ hasSignature = FALSE
    /\ signatureTargets = << >>
    /\ metadataTargets = createEmptyMetadataTargets
    /\ loading = TRUE
    /\ error = None
    /\ isSubmitting = FALSE
    /\ bootRuns = << >>
    /\ hydRuns = << >>
    /\ placing = << >>
    /\ submitting = << >>
    /\ netLog = << >>
    /\ callbackLog = << >>
    /\ toast = None
    /\ lastPlacement = Idle
    /\ resolution = NoResolution
    /\ viewer = NoViewer

(***************************************************************************)
(* The document view: react-pdf Document / Page callbacks, zoom, pagination *)
(***************************************************************************)
\* what the view handlers leave alone
ViewOnly ==
    UNCHANGED << editor, props, enableUndo, mounted, documentIdRef, sessionTokenRef,
                 currentPdfBlob, originalPdfBlob, modifiedPdfBlob, pdfHistory,
                 hasSignature, signatureTargets, metadataTargets, loading, error,
                 isSubmitting, bootRuns, hydRuns, placing, submitting, netLog,
                 callbackLog, toast, lastPlacement, resolution >>

\* Button.tsx pageWidth, in hundredths of a point
pageWidth(zoom, availableWidth) ==
    IF PDF_BASE_WIDTH * zoom <= availableWidth * 100
    THEN PDF_BASE_WIDTH * zoom ELSE availableWidth * 100

\* the pages mounted under the Document render again when their width prop changed
rerenderOnWidth(v, zoom, availableWidth) ==
    [v EXCEPT !.zoom = zoom, !.availableWidth = availableWidth,
              !.toRender = IF pageWidth(zoom, availableWidth) # pageWidth(v.zoom, v.availableWidth)
                              /\ v.file = currentPdfBlob
                           THEN 1 .. v.totalPages ELSE v.toRender]

\* Button.tsx handleDocumentLoadSuccess: the Document keyed by the current
\* pdfUrl reports its page count, and its pages mount and start rendering
handleDocumentLoadSuccess ==
    /\ editor = "template"
    /\ mounted
    /\ currentPdfBlob # NoBlob
    /\ viewer.file # currentPdfBlob
    /\ viewer' = [viewer EXCEPT !.file = currentPdfBlob,
                                !.totalPages = NumPages(currentPdfBlob),
                                !.pagesRendered = 0,
                                !.pagesReadyNotified = FALSE,
                                !.toRender = 1 .. NumPages(currentPdfBlob),
                                !.renderedOnce = { },
                                !.notified = 0]
    /\ ViewOnly

\* the counting of handlePageRenderSuccess: the refs after one more event
countPageRender(v) ==
    LET n == v.pagesRendered + 1
        fire == ~v.pagesReadyNotified /\ n >= v.totalPages
    IN [v EXCEPT !.pagesRendered = n,
                 !.pagesReadyNotified = v.pagesReadyNotified \/ fire,
                 !.notified = IF fire THEN v.notified + 1 ELSE v.notified]

\* Button.tsx handlePageRenderSuccess, called by the Page of page p when its
\* canvas finished rendering
handlePageRenderSuccess(p) ==
    /\ editor = "template"
    /\ viewer.file = currentPdfBlob
    /\ viewer.totalPages # 0
    /\ p \in viewer.toRender
    /\ viewer.pagesRendered < MaxRenders
    /\ viewer' = countPageRender([viewer EXCEPT !.toRender = @ \ { p },
                                                !.renderedOnce = @ \cup { p }])
    /\ ViewOnly

\* Button.tsx handleZoomIn
handleZoomIn ==
    /\ editor = "template"
    /\ mounted
    /\ viewer' = rerenderOnWidth(viewer,
                     IF viewer.zoom + ZOOM_STEP < MAX_ZOOM THEN viewer.zoom + ZOOM_STEP ELSE MAX_ZOOM,
                     viewer.availableWidth)
    /\ viewer' # viewer
    /\ ViewOnly

\* Button.tsx handleZoomOut
handleZoomOut ==
    /\ editor = "template"
    /\ mounted
    /\ viewer' = rerenderOnWidth(viewer,
                     IF viewer.zoom - ZOOM_STEP > MIN_ZOOM THEN viewer.zoom - ZOOM_STEP ELSE MIN_ZOOM,
                     viewer.availableWidth)
    /\ viewer' # viewer
    /\ ViewOnly

\* Button.tsx handleZoomReset
handleZoomReset ==
    /\ editor = "template"
    /\ mounted
    /\ viewer' = rerenderOnWidth(viewer, 100, viewer.availableWidth)
    /\ viewer' # viewer
    /\ ViewOnly

\* Button.tsx handleResize -> updateAvailableWidth: the container is now w wide inside
handleResize(w) ==
    /\ editor = "template"
    /\ mounted
    /\ w \in AvailableWidths
    /\ viewer' = rerenderOnWidth(viewer, viewer.zoom, w)
    /\ viewer' # viewer
    /\ ViewOnly

\* PDFSignatureEditor.tsx Document onLoadSuccess: the Document given the
\* current `pdf` reports its page count
FixedDocumentLoadSuccess ==
    /\ editor = "fixed"
    /\ mounted
    /\ ~loading
    /\ error = None
    /\ currentPdfBlob # NoBlob
    /\ viewer.file # currentPdfBlob
    /\ viewer' = [viewer EXCEPT !.file = currentPdfBlob,
                                !.totalPages = NumPages(currentPdfBlob)]
    /\ ViewOnly

\* the pagination row is rendered when totalPages > 1
PaginationShown ==
    /\ editor = "fixed"
    /\ mounted
    /\ ~loading
    /\ error = None
    /\ currentPdfBlob # NoBlob
    /\ viewer.totalPages > 1

\* PDFSignatureEditor.tsx Previous button
FixedPrevious ==
    /\ PaginationShown
    /\ viewer.pageNum # 0
    /\ viewer' = [viewer EXCEPT !.pageNum = IF viewer.pageNum - 1 > 0 THEN viewer.pageNum - 1 ELSE 0]
    /\ ViewOnly

\* PDFSignatureEditor.tsx Next button
FixedNext ==
    /\ PaginationShown
    /\ viewer.pageNum # viewer.totalPages - 1
    /\ viewer' = [viewer EXCEPT !.pageNum = IF viewer.totalPages - 1 < viewer.pageNum + 1
                                            THEN viewer.totalPages - 1 ELSE viewer.pageNum + 1]
    /\ ViewOnly

Init == InitTemplate \/ InitFixed

\* mount and the settling of the loads it starts
NextLoad ==
    \/ Mount
    \/ \E i \in 1 .. MaxEffectRuns, r \in RemoteResponses : HydrateResolve(i, r)
    \/ \E i \in 1 .. MaxEffectRuns : HydrateReject(i)
    \/ \E i \in 1 .. MaxEffectRuns : BootResolve(i)
    \/ \E i \in 1 .. MaxEffectRuns : BootReject(i)
    \/ FixedMount
    \/ \E i \in 1 .. MaxEffectRuns : FixedLoadResolve(i)
    \/ \E i \in 1 .. MaxEffectRuns : FixedLoadReject(i)

\* placement
NextPlace ==
    \/ \E drawn \in BOOLEAN, meta \in MetaInputs, sliceThrows \in BOOLEAN :
          handleAddSignature(drawn, meta, sliceThrows)
    \/ \E i \in 1 .. MaxInFlight, lib \in LibFailures : AddSignatureSettle(i, lib)
    \/ \E drawn \in BOOLEAN, meta \in MetaInputs : FixedHandleAddSignature(drawn, meta)
    \/ \E i \in 1 .. MaxInFlight, lib \in LibFailures : FixedAddSignatureSettle(i, lib)

\* undo and reset
NextRevert ==
    \/ handleUndo
    \/ handleReset
    \/ FixedHandleUndo
    \/ FixedHandleReset

\* submission
NextSubmit ==
    \/ \E endpoint \in BOOLEAN : handleSubmit(endpoint)
    \/ \E i \in 1 .. MaxSubmitsInFlight : SubmitEncoded(i)
    \/ \E i \in 1 .. MaxSubmitsInFlight : SubmitResolve(i)
    \/ \E i \in 1 .. MaxSubmitsInFlight : SubmitReject(i)
    \/ \E onSubmit \in BOOLEAN : FixedHandleSubmit(onSubmit)
    \/ \E i \in 1 .. MaxSubmitsInFlight : FixedSubmitResolve(i)
    \/ \E i \in 1 .. MaxSubmitsInFlight : FixedSubmitReject(i)

\* renders that change the document source
NextReload ==
    \/ \E q \in TemplateProps : ChangeProps(q)
    \/ RerunBootstrap
    \/ \E q \in FixedProps : FixedChangeProps(q)

\* an instance whose document source stays as mounted: load, then edit
Next == NextLoad \/ NextPlace \/ NextRevert

Spec == Init /\ [][Next]_vars

\* the template-based editor before its effects, with one entry of the
\* coordinates response of its template
InitPositions ==
    /\ editor = "template"
    /\ props = [pdfData |-> None, pdfUrl |-> None, documentId |-> None,
                templateId |-> "t1", signaturePosition |-> << 1 >>]
    /\ enableUndo = TRUE
    /\ mounted = FALSE
    /\ documentIdRef = props.documentId
    /\ sessionTokenRef = None
    /\ currentPdfBlob = NoBlob
    /\ originalPdfBlob = NoBlob
    /\ modifiedPdfBlob = NoBlob
    /\ pdfHistory = << >>
    /\ hasSignature = FALSE
    /\ signatureTargets = fallbackTargets(props)
    /\ metadataTargets = createEmptyMetadataTargets
    /\ loading = TRUE
    /\ error = None
    /\ isSubmitting = FALSE
    /\ bootRuns = << >>
    /\ hydRuns = << >>
    /\ placing = << >>
    /\ submitting = << >>
    /\ netLog = << >>
    /\ callbackLog = << >>
    /\ toast = None
    /\ lastPlacement = Idle
    /\ resolution \in { [NoResolution EXCEPT !.entries = << e >>] : e \in RawEntries }
    /\ viewer = NoViewer

\* the mapping of the entry by either version of fetchSignaturePositions
NextPositions ==
    \/ \E m \in { Undefined, Defined(PageSizes[1]) } : ResolveEntry(m)
    \/ \E m \in { Undefined, Defined(PageSizes) } : ResolveEntryPerPage(m)

\* the mapping of coordinate entries on its own
SpecPositions == InitPositions /\ [][NextPositions]_vars

\* an instance whose document source changes while loads are in flight
SpecReload == Init /\ [][NextLoad \/ NextReload]_vars

\* an instance that is signed and submitted
SpecSubmit == Init /\ [][NextLoad \/ NextPlace \/ NextSubmit]_vars

\* an editor without template (its targets come from the signaturePosition
\* prop alone), before its effects
InitReplace == Init /\ ( editor = "template" => props.templateId = None )

\* load, placement of a drawn signature with name and date (one at a time),
\* undo, and renders with another document source
NextReplace ==
    \/ Mount
    \/ \E i \in 1 .. MaxEffectRuns : BootResolve(i)
    \/ FixedMount
    \/ \E i \in 1 .. MaxEffectRuns : FixedLoadResolve(i)
    \/ /\ placing = << >>
       /\ handleAddSignature(TRUE, [name |-> TRUE, email |-> FALSE, date |-> TRUE], FALSE)
    \/ AddSignatureSettle(1, "none")
    \/ /\ placing = << >>
       /\ FixedHandleAddSignature(TRUE, [name |-> TRUE, email |-> FALSE, date |-> TRUE])
    \/ FixedAddSignatureSettle(1, "none")
    \/ handleUndo
    \/ FixedHandleUndo
    \/ \E q \in TemplateProps : q.templateId = None /\ ChangeProps(q)
    \/ \E q \in FixedProps : FixedChangeProps(q)

\* an instance that is edited and whose document source then changes
SpecReplace == InitReplace /\ [][NextReplace]_vars

\* every awaited call of a submission settles: blobToBase64 resolves or
\* rejects, and the onSubmit promise or the request resolves or rejects
SubmitsSettle ==
    \A i \in 1 .. MaxSubmitsInFlight :
        /\ WF_vars(SubmitEncoded(i) \/ SubmitReject(i))
        /\ WF_vars(SubmitResolve(i) \/ SubmitReject(i))
        /\ WF_vars(FixedSubmitResolve(i) \/ FixedSubmitReject(i))

\* an instance that is loaded, edited and submitted, whose awaited
\* submission calls all settle
SpecSubmitSettles == Init /\ [][NextLoad \/ NextPlace \/ NextSubmit]_vars /\ SubmitsSettle

\* a template-based editor without template, before its effects
InitViewer == InitTemplate /\ props.templateId = None

\* load, the view callbacks of react-pdf, and zoom and resize within
\* ZoomExplored
NextViewer ==
    \/ Mount
    \/ \E i \in 1 .. MaxEffectRuns : BootResolve(i)
    \/ handleDocumentLoadSuccess
    \/ \E p \in 1 .. DocPages : handlePageRenderSuccess(p)
    \/ viewer.zoom < 100 + ZoomExplored /\ handleZoomIn
    \/ viewer.zoom > 100 - ZoomExplored /\ handleZoomOut
    \/ handleZoomReset
    \/ \E w \in AvailableWidths : handleResize(w)

\* a template-based editor whose document is loaded, rendered and zoomed
SpecViewer == InitViewer /\ [][NextViewer]_vars

\* load, the Document callback, pagination, one placement on an unsigned
\* document at a time, undo, reset, and renders with another document source
NextPaging ==
    \/ FixedMount
    \/ \E i \in 1 .. MaxEffectRuns : FixedLoadResolve(i)
    \/ \E q \in FixedProps : FixedChangeProps(q)
    \/ FixedDocumentLoadSuccess
    \/ FixedPrevious
    \/ FixedNext
    \/ /\ placing = << >>
       /\ modifiedPdfBlob = NoBlob
       /\ FixedHandleAddSignature(TRUE, [name |-> TRUE, email |-> FALSE, date |-> TRUE])
    \/ FixedAddSignatureSettle(1, "none")
    \/ FixedHandleUndo
    \/ FixedHandleReset

\* a fixed-position editor whose document is loaded, paged through and edited
SpecPaging == InitFixed /\ [][NextPaging]_vars

(***************************************************************************)
(* The steps and values the properties below speak about.                  *)
(***************************************************************************)
\* an undo() call
UndoStep == handleUndo \/ FixedHandleUndo

\* a reset() call that finds an original snapshot
ResetStep == handleReset \/ FixedHandleReset

\* a submit request
SubmitStep ==
    \/ \E endpoint \in BOOLEAN : handleSubmit(endpoint)
    \/ \E onSubmit \in BOOLEAN : FixedHandleSubmit(onSubmit)

\* a placement starts: a handleAddSignature call passes its checks
PlaceBeginStep ==
    /\ \/ \E drawn \in BOOLEAN, meta \in MetaInputs, sliceThrows \in BOOLEAN :
             handleAddSignature(drawn, meta, sliceThrows)
       \/ \E drawn \in BOOLEAN, meta \in MetaInputs : FixedHandleAddSignature(drawn, meta)
    /\ Len(placing') = Len(placing) + 1

\* the control that triggers a placement is enabled
PlaceControlEnabled ==
    IF editor = "template" THEN placeSignatureEnabled ELSE addSignatureEnabled

\* the snapshot a history entry holds
EntrySnapshot(e) == IF editor = "fixed" THEN e.pdf ELSE e

\* the document state of a freshly loaded document
Fresh(s) ==
    /\ s.cur # NoBlob
    /\ s.cur = s.orig
    /\ s.mod = NoBlob
    /\ s.hist = << >>
    /\ ~s.has

\* one of the targets of a placement resolves to a page the document lacks
OffDocument(task) ==
    IF editor = "template"
    THEN \E k \in 1 .. Len(task.targets) :
            desiredIndex(task.targets[k].page) \notin 0 .. (DocPages - 1)
    ELSE fixedPageIndex(task.targets) \notin 0 .. (DocPages - 1)

\* the position of a remote step in the bootstrap sequence
StepRank(pc) ==
    CASE pc = "createDoc" -> 1
      [] pc = "createSession" -> 2
      [] pc = "fetchView" -> 3
      [] OTHER -> 0

\* the steps a run issued follow the bootstrap sequence
IssuedInOrder(issued) ==
    \A j, k \in 1 .. Len(issued) : j < k => StepRank(issued[j]) < StepRank(issued[k])

\* run i of the load effect settles after a later render replaced it, or run
\* i of the coordinate effect settles after its cleanup
StaleSettle ==
    \E i \in 1 .. MaxEffectRuns :
       \/ /\ i <= Len(bootRuns)
          /\ ~bootRuns[i].live
          /\ (BootResolve(i) \/ BootReject(i) \/ FixedLoadResolve(i) \/ FixedLoadReject(i))
       \/ /\ i <= Len(hydRuns)
          /\ hydRuns[i].cancelled
          /\ ((\E r \in RemoteResponses : HydrateResolve(i, r)) \/ HydrateReject(i))

(***************************************************************************)
(* Properties.                                                             *)
(***************************************************************************)
\* C1: with undo enabled, when undo() directly follows one successful
\* placement, the active snapshot has the bytes of the snapshot that was
\* active when the placement began, the history is what it was then, and
\* hasSignature is false.
C1_PlaceThenUndoRestores ==
    (lastPlacement.phase = "undone" /\ enableUndo) =>
       /\ Bytes(currentPdfBlob) = Bytes(lastPlacement.pre.cur)
       /\ pdfHistory = lastPlacement.pre.hist
       /\ hasSignature = FALSE

\* a placement on a freshly loaded document of the template-based editor was undone
C1_Witness ==
    /\ lastPlacement.phase = "undone"
    /\ enableUndo
    /\ editor = "template"
    /\ Fresh(lastPlacement.pre)
    /\ pdfHistory = << >>
    /\ toast = "Undone"

\* C2: every reset() leaves the active snapshot with the bytes of the original
\* snapshot, the original snapshot as it was, the history empty,
\* modifiedPdfBlob null and hasSignature false, whatever came before.
C2_ResetRestoresOriginal ==
    [][ ResetStep =>
          /\ Bytes(currentPdfBlob') = Bytes(originalPdfBlob)
          /\ originalPdfBlob' = originalPdfBlob
          /\ pdfHistory' = << >>
          /\ modifiedPdfBlob' = NoBlob
          /\ hasSignature' = FALSE ]_vars

\* reset() ran after a published placement that had left a history entry
C2_Witness ==
    /\ lastPlacement.phase = "reset"
    /\ enableUndo
    /\ currentPdfBlob = originalPdfBlob
    /\ pdfHistory = << >>
    /\ modifiedPdfBlob = NoBlob

\* C3: in the template-based editor with undo enabled, one successful commit
\* on a freshly loaded document with one signature target leaves an active
\* snapshot whose bytes differ from the original, hasSignature true,
\* modifiedPdfBlob the new snapshot, and a history of exactly one entry with
\* the bytes of the original.
C3_FirstCommit ==
    ( /\ editor = "template"
      /\ lastPlacement.phase = "published"
      /\ enableUndo
      /\ Fresh(lastPlacement.pre)
      /\ Len(lastPlacement.task.targets) = 1 ) =>
       /\ Bytes(currentPdfBlob) # Bytes(originalPdfBlob)
       /\ originalPdfBlob = lastPlacement.pre.orig
       /\ hasSignature = TRUE
       /\ modifiedPdfBlob = currentPdfBlob
       /\ Len(pdfHistory) = 1
       /\ Bytes(pdfHistory[1]) = Bytes(originalPdfBlob)

\* the first commit on a fresh document was published
C3_Witness ==
    /\ editor = "template"
    /\ lastPlacement.phase = "published"
    /\ enableUndo
    /\ Fresh(lastPlacement.pre)
    /\ Len(lastPlacement.task.targets) = 1
    /\ toast = "Signature added!"
    /\ Len(currentPdfBlob.layers) = 1

\* C4: a submit request made while modifiedPdfBlob is null only gives the
\* "add your signature" notice: no request goes on the wire, no callback is
\* called, no submit is left suspended and isSubmitting is not set.
C4_SubmitNeedsSignature ==
    [][ (SubmitStep /\ modifiedPdfBlob = NoBlob) =>
          /\ toast' \in { "Please add your signature before submitting",
                          "Please add your signature first" }
          /\ netLog' = netLog
          /\ callbackLog' = callbackLog
          /\ submitting' = submitting
          /\ isSubmitting' = isSubmitting
          /\ isSubmitting' = FALSE ]_vars

\* a loaded, unsigned document was submitted and the request was turned down
C4_Witness ==
    /\ currentPdfBlob # NoBlob
    /\ modifiedPdfBlob = NoBlob
    /\ toast \in { "Please add your signature before submitting",
                   "Please add your signature first" }
    /\ netLog = << >>
    /\ isSubmitting = FALSE

\* C5: a placement with a target on a page the document lacks never
\* publishes, and when it has failed the active snapshot, modifiedPdfBlob and
\* hasSignature are what they were when it began.
C5_MissingPageFailsWhole ==
    ( /\ lastPlacement.phase \in { "published", "failed" }
      /\ OffDocument(lastPlacement.task) ) =>
       /\ lastPlacement.phase = "failed"
       /\ currentPdfBlob = lastPlacement.pre.cur
       /\ modifiedPdfBlob = lastPlacement.pre.mod
       /\ hasSignature = lastPlacement.pre.has

\* a placement aimed at page DocPages + 2 failed on the page check
C5_Witness ==
    /\ lastPlacement.phase = "failed"
    /\ OffDocument(lastPlacement.task)
    /\ toast = "Invalid signature page index"

\* C6: a placement triggered through its enabled control starts only while
\* no other placement is in flight.
C6_OnePlacementInFlight ==
    [][ (PlaceBeginStep /\ PlaceControlEnabled) => Len(placing) = 0 ]_vars

\* C7: when a load or coordinate task settles after the render that started it
\* was replaced, the targets, the active and original snapshots, the history,
\* the document id and the session token stay as they are.
C7_StaleResultsDiscarded ==
    [][ StaleSettle =>
          UNCHANGED << signatureTargets, metadataTargets, currentPdfBlob,
                       originalPdfBlob, pdfHistory, documentIdRef,
                       sessionTokenRef >> ]_vars

\* C8: undo() on a non-empty history makes the top entry the active snapshot
\* and pops it; modifiedPdfBlob is null afterwards when the active snapshot
\* has the content of the original, and set otherwise.
C8_UndoClearsFlagAtOriginal ==
    [][ (UndoStep /\ Len(pdfHistory) > 0) =>
          /\ currentPdfBlob' = EntrySnapshot(pdfHistory[Len(pdfHistory)])
          /\ pdfHistory' = SubSeq(pdfHistory, 1, Len(pdfHistory) - 1)
          /\ IF Bytes(currentPdfBlob') = Bytes(originalPdfBlob)
             THEN modifiedPdfBlob' = NoBlob
             ELSE modifiedPdfBlob' # NoBlob ]_vars

\* C9: undo() on an empty history only gives the "Nothing to undo" notice:
\* the active and original snapshots, the history, modifiedPdfBlob and
\* hasSignature stay as they are.
C9_UndoOnEmptyHistory ==
    [][ (UndoStep /\ Len(pdfHistory) = 0) =>
          /\ toast' = "Nothing to undo"
          /\ UNCHANGED << currentPdfBlob, originalPdfBlob, modifiedPdfBlob,
                          pdfHistory, hasSignature >> ]_vars

\* undo() was called on a signed document whose history is empty
C9_Witness ==
    /\ toast = "Nothing to undo"
    /\ pdfHistory = << >>
    /\ modifiedPdfBlob # NoBlob

\* the order and abort part of C10: the steps of a run are issued in the
\* bootstrap order, each by the success of the one before it, and a failed
\* step issues nothing and installs no snapshot
BootstrapSequential(i) ==
    /\ BootResolve(i) =>
          /\ IssuedInOrder(bootRuns'[i].issued)
          /\ SubSeq(bootRuns'[i].issued, 1, Len(bootRuns[i].issued)) = bootRuns[i].issued
          /\ Len(bootRuns'[i].issued) <= Len(bootRuns[i].issued) + 1
    /\ BootReject(i) =>
          /\ bootRuns'[i].issued = bootRuns[i].issued
          /\ bootRuns'[i].pc = "failed"
          /\ UNCHANGED << currentPdfBlob, originalPdfBlob, modifiedPdfBlob, pdfHistory >>

\* the failure of a step reaches the error state and onError
BootFailureSurfaced(i) ==
    BootReject(i) =>
       /\ error' = BootError(bootRuns[i].pc)
       /\ callbackLog' = << "onError", BootError(bootRuns[i].pc) >>

\* a run that failed or finished issues nothing more
BootRunsSettled ==
    \A i \in 1 .. Len(bootRuns) :
       /\ IssuedInOrder(bootRuns[i].issued)
       /\ bootRuns[i].pc = "failed" =>
             bootRuns[i].issued[Len(bootRuns[i].issued)] = bootRuns[i].failedAt

\* C10 as stated: the steps of a bootstrap run are issued in the order
\* create-document, create-session, fetch-document-view, each after the
\* success of the one before; a failed step issues nothing more, installs no
\* snapshot, sets the error state and passes its error to onError.
C10_BootstrapAsStated ==
    /\ [](editor = "template" => BootRunsSettled)
    /\ [][ \A i \in 1 .. MaxEffectRuns :
              BootstrapSequential(i) /\ BootFailureSurfaced(i) ]_vars

\* C10 amended: as above, with the error state set and onError called when
\* the run that failed is still the current one (no later render replaced it).
C10_BootstrapCurrentRun ==
    /\ [](editor = "template" => BootRunsSettled)
    /\ [][ \A i \in 1 .. MaxEffectRuns :
              /\ BootstrapSequential(i)
              /\ (i <= Len(bootRuns) /\ bootRuns[i].live) => BootFailureSurfaced(i) ]_vars

\* a current run created its document, failed to create the session, and
\* the failure reached the error state and onError
C10_Witness ==
    \E i \in 1 .. Len(bootRuns) :
       /\ bootRuns[i].live
       /\ bootRuns[i].pc = "failed"
       /\ bootRuns[i].issued = << "createDoc", "createSession" >>
       /\ error = BootError("createSession")
       /\ callbackLog = << "onError", BootError("createSession") >>
       /\ currentPdfBlob = NoBlob

\* the draw calls of the commit that produced snapshot b
LastLayer(b) == b.layers[Len(b.layers)]

\* the calls of a layer that draw field f below anchor a, on the page the
\* signature at a was drawn on
BlockLines(layer, f, a) ==
    { j \in DOMAIN layer :
        /\ layer[j].kind = "fallback"
        /\ layer[j].field = f
        /\ layer[j].anchor = a
        /\ layer[j].line >= 1
        /\ \E i \in DOMAIN layer :
              /\ layer[i].kind = "image"
              /\ layer[i].anchor = a
              /\ layer[i].page = layer[j].page }

\* no coordinate target of any metadata field
NoMetadataTargets(mtargets) ==
    \A f \in DOMAIN mtargets : mtargets[f] = << >>

\* C11: in the template-based editor, when the metadata target map has no
\* target at all and the signer name is shown and non-blank, the snapshot a
\* successful commit publishes carries, for every signature target, exactly
\* one line with the name drawn below that target on the target's page.
C11_FallbackUnderEveryTarget ==
    ( /\ editor = "template"
      /\ lastPlacement.phase = "published"
      /\ NoMetadataTargets(lastPlacement.task.mtargets)
      /\ lastPlacement.task.meta.name ) =>
       \A k \in 1 .. Len(lastPlacement.task.targets) :
          Cardinality(BlockLines(LastLayer(currentPdfBlob), "NAME",
                                 lastPlacement.task.targets[k])) = 1

\* a commit with two signature targets, no metadata target and a name was published
C11_Witness ==
    /\ editor = "template"
    /\ lastPlacement.phase = "published"
    /\ NoMetadataTargets(lastPlacement.task.mtargets)
    /\ lastPlacement.task.meta.name
    /\ Len(lastPlacement.task.targets) = 2
    /\ lastPlacement.task.targets[1] # lastPlacement.task.targets[2]
    /\ toast = "Signature added!"

\* the page rule as stated: a raw value of 1 or more is a page number, any
\* other raw value is the index itself
StatedIndex(p) == IF p >= 1 THEN p - 1 ELSE p

\* the targets a commit of the template-based editor resolves: the signature
\* targets, then the coordinate targets of the metadata fields it writes
ResolvedTargets(task) ==
    { task.targets[k] : k \in 1 .. Len(task.targets) }
      \cup UNION { { task.mtargets[f][k] : k \in 1 .. Len(task.mtargets[f]) } :
                    f \in { g \in DOMAIN task.mtargets : fieldEnabled(task.meta, g) } }

\* a target of the commit resolves to an index the document has no page for
SomeTargetOffDocument(task) ==
    \E t \in ResolvedTargets(task) : StatedIndex(t.page) \notin 0 .. (DocPages - 1)

\* a published commit drew every call on the page the rule gives for its
\* target, and drew the image of every signature target
DrawnByRule ==
    ( editor = "template" /\ lastPlacement.phase = "published" ) =>
       /\ \A j \in DOMAIN LastLayer(currentPdfBlob) :
             /\ LastLayer(currentPdfBlob)[j].page
                   = StatedIndex(LastLayer(currentPdfBlob)[j].anchor.page)
             /\ LastLayer(currentPdfBlob)[j].page \in 0 .. (DocPages - 1)
       /\ \A t \in ResolvedTargets(lastPlacement.task) :
             \E j \in DOMAIN LastLayer(currentPdfBlob) :
                LastLayer(currentPdfBlob)[j].anchor = t

\* a commit in which pdf-lib itself does not fail and a target is off the
\* document ends with an indexing error and publishes nothing
MissingPageRaises ==
    \A i \in 1 .. Len(placing) :
       ( AddSignatureSettle(i, "none") /\ SomeTargetOffDocument(placing[i]) ) =>
          /\ toast' \in { "Invalid signature page index",
                           "Invalid page index for text placement" }
          /\ currentPdfBlob' = currentPdfBlob
          /\ modifiedPdfBlob' = modifiedPdfBlob
          /\ hasSignature' = hasSignature

PlacedAtPositionProp ==
    /\ lastPlacement.phase = "published"
    /\ props.signaturePosition # << >>
    /\ \/ editor = "fixed"
       \/ editor = "template" /\ props.templateId = None
                              /\ lastPlacement.task.targets = fallbackTargets(props)

\* C13: the page of a signaturePosition prop is 0-indexed: a commit that
\* places the signature at a position with page = k draws the image on the
\* page of index k, the (k+1)-th page of the document.
C13_PositionPageZeroIndexed ==
    PlacedAtPositionProp =>
       \A j \in DOMAIN LastLayer(currentPdfBlob) :
          LastLayer(currentPdfBlob)[j].kind = "image" =>
             LastLayer(currentPdfBlob)[j].page = props.signaturePosition[1]

\* the page width and height the resolved entry refers to, in 1/1700 pt
ResolvedPageWidth ==
    PercentFull *
      ( IF resolution.by = "part_001"
        THEN Span(resolution.pageMetrics[1][resolution.positions[1].page].width)
        ELSE IF resolution.pageMetrics = Undefined THEN COORDINATE_REFERENCE_WIDTH
        ELSE Span(resolution.pageMetrics[1].width) )

ResolvedPageHeight ==
    PercentFull *
      ( IF resolution.by = "part_001"
        THEN Span(resolution.pageMetrics[1][resolution.positions[1].page].height)
        ELSE IF resolution.pageMetrics = Undefined THEN COORDINATE_REFERENCE_HEIGHT
        ELSE Span(resolution.pageMetrics[1].height) )

\* the entry mapped has percentages 0 .. 100 for both x and y
PercentEntry ==
    /\ resolution.entries[1].x # Undefined
    /\ resolution.entries[1].x[1] \in 0 .. PercentFull
    /\ resolution.entries[1].y[1] \in 0 .. PercentFull

\* C14: an entry with 0 <= x <= 100 and 0 <= y <= 100, whatever its width and
\* height, is mapped to a position with 0 <= x <= page width and
\* 0 <= y <= page height.
C14_PercentWithinPage ==
    ( resolution.by # None /\ resolution.thrown = None /\ PercentEntry ) =>
       /\ resolution.positions[1].x \in 0 .. ResolvedPageWidth
       /\ resolution.positions[1].y \in 0 .. ResolvedPageHeight

\* the same for the version that clamps and measures y from the reference height
PercentWithinReference ==
    ( resolution.by = "part_002" /\ PercentEntry ) =>
       /\ resolution.positions[1].x \in 0 .. ResolvedPageWidth
       /\ resolution.positions[1].y \in 0 .. ResolvedPageHeight

\* a step of handleAddSignature that one of its three checks ends: the pad is
\* empty, no signature target (no position) is configured, or no PDF is loaded
RejectedPlacementStep ==
    \/ \E drawn \in BOOLEAN, meta \in MetaInputs, sliceThrows \in BOOLEAN :
          /\ handleAddSignature(drawn, meta, sliceThrows)
          /\ ~drawn \/ Len(signatureTargets) = 0 \/ currentPdfBlob = NoBlob
    \/ \E drawn \in BOOLEAN, meta \in MetaInputs :
          /\ FixedHandleAddSignature(drawn, meta)
          /\ \/ ~drawn
             \/ props.signaturePosition = << >> /\ ~props.enableDragDrop
             \/ currentPdfBlob = NoBlob

\* C15: a placement request that validation rejects (empty pad, no signature
\* target configured, PDF not loaded) leaves the active snapshot, the
\* original, the history stack, modifiedPdfBlob and hasSignature as they
\* were, starts no commit (so nothing is drawn) and only shows a notice.
C15_RejectedPlacementNoEffect ==
    [][ RejectedPlacementStep =>
          /\ UNCHANGED << currentPdfBlob, originalPdfBlob, modifiedPdfBlob, pdfHistory,
                          hasSignature, placing, callbackLog >>
          /\ toast' \in { "Please draw your signature", "Signature positions not set",
                           "PDF not loaded yet", "Signature position not configured",
                           "Please wait for PDF to load" } ]_vars

\* a request with an empty pad was rejected on a document that already has a
\* history entry and a signature
C15_Witness ==
    /\ toast = "Please draw your signature"
    /\ enableUndo
    /\ Len(pdfHistory) = 1
    /\ modifiedPdfBlob # NoBlob
    /\ placing = << >>
    /\ lastPlacement.phase = "idle"

\* a suspended submission settles: its awaited call resolved or rejected
SubmitSettleStep ==
    \E i \in 1 .. MaxSubmitsInFlight :
       SubmitResolve(i) \/ SubmitReject(i) \/ FixedSubmitResolve(i) \/ FixedSubmitReject(i)

\* a suspended submission of the session path passes blobToBase64
SubmitEncodedStep == \E i \in 1 .. MaxSubmitsInFlight : SubmitEncoded(i)

\* C16: every step of a submission (the request, the encoding, the success and
\* the failure) leaves the active snapshot, the history stack and
\* modifiedPdfBlob as they were; an invocation sends at most one request, at
\* its start or when its encoding is done, and none when it settles, and a
\* settled invocation is gone (nothing is retried).
C16_SubmitFrame ==
    [][ /\ ( SubmitStep \/ SubmitEncodedStep \/ SubmitSettleStep ) =>
             /\ UNCHANGED << currentPdfBlob, originalPdfBlob, pdfHistory, modifiedPdfBlob,
                             hasSignature >>
             /\ Len(netLog') <= Len(netLog) + 1
        /\ SubmitStep =>
             /\ Len(submitting') <= Len(submitting) + 1
             /\ ( netLog' # netLog =>
                    /\ Len(submitting') = Len(submitting) + 1
                    /\ submitting'[Len(submitting')].pc = "sent" )
        /\ \A i \in 1 .. Len(submitting) :
             SubmitEncoded(i) =>
                /\ submitting[i].pc = "encode"
                /\ submitting'[i].pc = "sent"
                /\ Len(netLog') = Len(netLog) + 1
        /\ SubmitSettleStep =>
             /\ netLog' = netLog
             /\ Len(submitting') = Len(submitting) - 1
             /\ isSubmitting' = FALSE ]_vars

\* a submission of the template-based editor failed after its request was
\* sent, and the signed bytes are still there
C16_Witness ==
    /\ editor = "template"
    /\ callbackLog = << "onError", "Submit failed" >>
    /\ Len(netLog) = 1
    /\ submitting = << >>
    /\ modifiedPdfBlob # NoBlob
    /\ modifiedPdfBlob = currentPdfBlob

\* a submission ends in an error: the awaited call (transport, encoding or a
\* non-success acknowledgement) rejects, or a signed document is submitted
\* with neither an endpoint, a session token nor a document id
SubmissionErrorStep ==
    \/ \E i \in 1 .. MaxSubmitsInFlight : SubmitReject(i) \/ FixedSubmitReject(i)
    \/ /\ \E endpoint \in BOOLEAN : handleSubmit(endpoint) /\ ~endpoint
       /\ modifiedPdfBlob # NoBlob
       /\ sessionTokenRef = None
       /\ documentIdRef = None
       /\ toast' = "No submission endpoint configured"

\* C17: every submission error (transport failure, non-success
\* acknowledgement, missing endpoint configuration) is surfaced both by a call
\* of the error callback onError and by a notice.
C17_SubmitErrorsSurfaced ==
    [][ SubmissionErrorStep =>
          /\ callbackLog' # << >>
          /\ callbackLog'[1] = "onError"
          /\ toast' \in { "Submit failed", "Failed to submit",
                           "No submission endpoint configured" } ]_vars

\* the rejected request alone, in the template-based editor: its catch calls
\* onError and shows the notice
SubmitErrorsSurfacedTemplateRejects ==
    [][ (\E i \in 1 .. MaxSubmitsInFlight : SubmitReject(i)) =>
          /\ callbackLog' # << >>
          /\ callbackLog'[1] = "onError"
          /\ toast' = "Submit failed" ]_vars

\* C18: the fixed-position editor is UI-only: it sends no request of its own
\* on submit; the signed PDF leaves it only through the onSubmit callback,
\* and a submit without onSubmit makes no network call.
C18_FixedEditorSendsNothing ==
    [][ (\E onSubmit \in BOOLEAN : FixedHandleSubmit(onSubmit)) =>
          /\ netLog' = netLog
          /\ ( Len(submitting') > Len(submitting) =>
                 /\ submitting'[Len(submitting')].path = "onSubmit"
                 /\ callbackLog' = << "onSubmit", Bytes(modifiedPdfBlob) >> ) ]_vars

\* the position prop of a text field of the fixed-position editor
TextPositionProp(f) ==
    CASE f = "NAME" -> props.namePosition
      [] f = "EMAIL" -> props.emailPosition
      [] f = "DATE" -> props.datePosition

\* C19: in the fixed-position editor the name, the email and the date are
\* drawn at the position (coordinates and page) of namePosition,
\* emailPosition and datePosition, and a field without its position prop is
\* not drawn at all.
C19_TextAtPositionProps ==
    ( editor = "fixed" /\ lastPlacement.phase = "published" ) =>
       \A j \in DOMAIN LastLayer(currentPdfBlob) :
          LastLayer(currentPdfBlob)[j].field \in { "NAME", "EMAIL", "DATE" } =>
             /\ TextPositionProp(LastLayer(currentPdfBlob)[j].field) # << >>
             /\ LastLayer(currentPdfBlob)[j].line = 0
             /\ LastLayer(currentPdfBlob)[j].anchor.page
                   = TextPositionProp(LastLayer(currentPdfBlob)[j].field)[1]
             /\ LastLayer(currentPdfBlob)[j].page
                   = TextPositionProp(LastLayer(currentPdfBlob)[j].field)[1]

\* the instance takes its document from pdfData / pdfUrl: the fixed-position
\* editor always, the template-based editor when it has neither a documentId
\* nor a templateId
LegacySourced ==
    \/ editor = "fixed"
    \/ editor = "template" /\ props.documentId = None /\ props.templateId = None

\* every snapshot installed and every load started is of document d
OnlyLoads(d) ==
    /\ currentPdfBlob # NoBlob => currentPdfBlob.doc = d
    /\ originalPdfBlob # NoBlob => originalPdfBlob.doc = d
    /\ \A i \in 1 .. Len(bootRuns) : bootRuns[i].src = d

\* no load is pending and none has failed
LoadsDone ==
    /\ error = None
    /\ \A i \in 1 .. Len(bootRuns) : bootRuns[i].pc = "done"

\* C20: with pdfData provided the document of pdfData is the one loaded and
\* pdfUrl is never fetched; without pdfData and with pdfUrl the document of
\* pdfUrl is loaded; with neither (and no document or template identifier)
\* the component is in the error state, not loading, without a snapshot.
C20_SourcePriority ==
    ( mounted /\ LegacySourced ) =>
       /\ props.pdfData # None =>
             /\ OnlyLoads(props.pdfData)
             /\ LoadsDone => currentPdfBlob # NoBlob
       /\ ( props.pdfData = None /\ props.pdfUrl # None ) =>
             /\ OnlyLoads(props.pdfUrl)
             /\ LoadsDone => currentPdfBlob # NoBlob
       /\ ( props.pdfData = None /\ props.pdfUrl = None ) =>
             /\ error # None
             /\ ~loading
             /\ currentPdfBlob = NoBlob
             /\ originalPdfBlob = NoBlob
             /\ \A i \in 1 .. Len(bootRuns) : bootRuns[i].pc = "noSource"

\* an instance given both pdfData and pdfUrl has loaded the document of pdfData
C20_Witness ==
    /\ mounted
    /\ LegacySourced
    /\ props.pdfData # None
    /\ props.pdfUrl # None
    /\ LoadsDone
    /\ currentPdfBlob # NoBlob
    /\ currentPdfBlob.doc = props.pdfData
    /\ currentPdfBlob.doc # props.pdfUrl

\* the bytes of snapshot b without the layer its latest commit drew
BeforeLastLayer(b) == << b.doc, SubSeq(b.layers, 1, Len(b.layers) - 1) >>

SignatureTargetsOnDocument(task) ==
    \A k \in 1 .. Len(task.targets) :
       StatedIndex(task.targets[k].page) \in 0 .. (DocPages - 1)

\* a coordinate target of a metadata field the commit writes resolves to a
\* page the document lacks
SomeTextTargetOffDocument(task) ==
    \E f \in DOMAIN task.mtargets :
       /\ fieldEnabled(task.meta, f)
       /\ \E k \in 1 .. Len(task.mtargets[f]) :
             StatedIndex(task.mtargets[f][k].page) \notin 0 .. (DocPages - 1)

\* C22: a commit whose signature targets are all on the document and one of
\* whose metadata text targets resolves to a missing page (pdf-lib itself not
\* failing) drops only that text placement: the new snapshot is published
\* with the image of every signature target.
C22_TextPageMissingAbortsOnlyThatText ==
    [][ \A i \in 1 .. Len(placing) :
          ( /\ AddSignatureSettle(i, "none")
            /\ SignatureTargetsOnDocument(placing[i])
            /\ SomeTextTargetOffDocument(placing[i]) ) =>
             /\ toast' = "Signature added!"
             /\ hasSignature'
             /\ currentPdfBlob' # currentPdfBlob
             /\ \A k \in 1 .. Len(placing[i].targets) :
                   \E j \in DOMAIN LastLayer(currentPdfBlob') :
                      /\ LastLayer(currentPdfBlob')[j].kind = "image"
                      /\ LastLayer(currentPdfBlob')[j].anchor = placing[i].targets[k] ]_vars

\* in a layer every image draw comes before every text draw
ImagesBeforeText(layer) ==
    \A i, j \in DOMAIN layer :
       ( layer[i].kind = "image" /\ layer[j].kind # "image" ) => i < j

\* the number of text draws a commit of the template-based editor plans: one
\* per coordinate target of the enabled fields or, when these have none, one
\* line per enabled field under every signature target
RECURSIVE SumLen(_, _)
SumLen(mtargets, fields) ==
    IF fields = {} THEN 0
    ELSE LET f == CHOOSE g \in fields : TRUE
         IN  Len(mtargets[f]) + SumLen(mtargets, fields \ { f })

PlannedTextDraws(task) ==
    LET enabled == { f \in DOMAIN task.mtargets : fieldEnabled(task.meta, f) } IN
    IF editor = "fixed"
    THEN 1 + (IF task.meta.name THEN 1 ELSE 0) + (IF task.meta.email THEN 1 ELSE 0)
    ELSE IF SumLen(task.mtargets, enabled) > 0 THEN SumLen(task.mtargets, enabled)
    ELSE Cardinality(enabled) * Len(task.targets)

\* the number of image draws a commit plans
PlannedImageDraws(task) == IF editor = "fixed" THEN 1 ELSE Len(task.targets)

\* the draws of kind image, or of another kind, in a layer
ImageDraws(layer) == { j \in DOMAIN layer : layer[j].kind = "image" }
TextDraws(layer) == { j \in DOMAIN layer : layer[j].kind # "image" }

\* C23: in the layer of every snapshot that is ever active, all signature
\* image draws precede all metadata text draws, and the snapshot a commit
\* publishes already holds every draw of its plan (the document is saved and
\* published only after the last draw).
C23_ImagesThenTextThenPublish ==
    /\ currentPdfBlob # NoBlob =>
          \A l \in DOMAIN currentPdfBlob.layers :
             /\ ImagesBeforeText(currentPdfBlob.layers[l])
             /\ ImageDraws(currentPdfBlob.layers[l]) # {}
    /\ lastPlacement.phase = "published" =>
          /\ Cardinality(ImageDraws(LastLayer(currentPdfBlob)))
                = PlannedImageDraws(lastPlacement.task)
          /\ Cardinality(TextDraws(LastLayer(currentPdfBlob)))
                = PlannedTextDraws(lastPlacement.task)

\* a published commit drew two images and, after them, text
C23_Witness ==
    /\ lastPlacement.phase = "published"
    /\ Cardinality(ImageDraws(LastLayer(currentPdfBlob))) = 2
    /\ Cardinality(TextDraws(LastLayer(currentPdfBlob))) >= 2
    /\ LastLayer(currentPdfBlob)[1].kind = "image"
    /\ LastLayer(currentPdfBlob)[Len(LastLayer(currentPdfBlob))].kind # "image"

\* the coordinate fetch of the current template has not settled yet
CoordinateFetchInFlight ==
    \E i \in 1 .. Len(hydRuns) : hydRuns[i].pending /\ ~hydRuns[i].cancelled

\* C24: in the template-based editor no commit starts (no plan is made from
\* the targets, nothing is drawn) while the coordinate fetch of the current
\* template is still in flight or while no PDF is loaded.
C24_PlanWaitsForBothFetches ==
    [][ ( editor = "template" /\ PlaceBeginStep ) =>
          /\ ~CoordinateFetchInFlight
          /\ currentPdfBlob # NoBlob ]_vars

\* the part about the PDF alone: no commit starts without a loaded PDF
PlanWaitsForPdf ==
    [][ PlaceBeginStep => currentPdfBlob # NoBlob ]_vars

\* the lines of the fallback block drawn under anchor a in a layer, in the
\* order drawn
BlockUnder(layer, a) ==
    SelectSeq(layer, LAMBDA d : d.kind = "fallback" /\ d.anchor = a)

\* the place of a field in the fixed order name, email, date
FieldRank(f) ==
    CASE f = "NAME" -> 1
      [] f = "EMAIL" -> 2
      [] f = "DATE" -> 3

\* the published commit of the template-based editor drew the fallback block
FallbackPublished ==
    /\ editor = "template"
    /\ lastPlacement.phase = "published"
    /\ NoMetadataTargets(lastPlacement.task.mtargets)

TargetHeight ==
    IF resolution.positions[1].height = Undefined THEN 0
    ELSE resolution.positions[1].height[1]

\* the mapped position is the entry's percentages of the page, y measured
\* from the top edge and turned to the bottom-left origin
FlippedPercent ==
    /\ resolution.positions[1].x = resolution.entries[1].x[1] * (ResolvedPageWidth \div PercentFull)
    /\ resolution.positions[1].y =
          ResolvedPageHeight
            - resolution.entries[1].y[1] * (ResolvedPageHeight \div PercentFull)
            - TargetHeight

\* C26: a percent-based entry is mapped to absX = (x / 100) * pageWidth and
\* absY = pageHeight - (y / 100) * pageHeight - targetHeight, targetHeight
\* being the resolved height of the entry or 0 when it has none.
C26_PercentFlipsY ==
    ( resolution.by # None /\ resolution.thrown = None /\ PercentEntry ) => FlippedPercent

\* the same for the version that takes the size of every page
PerPageFlipsY ==
    ( resolution.by = "part_001" /\ resolution.thrown = None /\ PercentEntry )
       => FlippedPercent

\* the page the mapped entry names (page 1 when it names none)
DestinationPage ==
    IF resolution.entries[1].pageNumber = Undefined THEN 1
    ELSE resolution.entries[1].pageNumber[1]

\* the mapped x is the entry's percentage of the width of its destination
\* page in the document
OnTruePageWidth ==
    resolution.positions[1].x
       = resolution.entries[1].x[1] * Span(PageSizes[DestinationPage].width)

\* C27: a percent-based entry is converted with the true size of the page of
\* the document that its pageNumber names, never with an assumed reference
\* size: its x is x percent of the width of that page.
C27_TruePageSize ==
    ( /\ resolution.by # None
      /\ resolution.thrown = None
      /\ PercentEntry
      /\ DestinationPage \in DOMAIN PageSizes ) => OnTruePageWidth

\* the same for the version that takes the size of every page
PerPageTrueSize ==
    ( /\ resolution.by = "part_001"
      /\ resolution.thrown = None
      /\ PercentEntry
      /\ DestinationPage \in DOMAIN PageSizes ) => OnTruePageWidth

\* the version that takes the size of every page, called as Button.tsx calls
\* it (no page sizes), maps nothing
PerPageNeedsMetrics ==
    ( resolution.by = "part_001" /\ resolution.pageMetrics = Undefined )
       => resolution.thrown # None /\ resolution.positions = << >>

\* e is an element of the list q
InList(e, q) == \E k \in DOMAIN q : q[k] = e

\* after the step, entry e is in the metadata list of its type and in no
\* other list
BucketedAsMetadata(e) ==
    /\ InList(e, metadataTargets'[e.type])
    /\ ~InList(e, signatureTargets')
    /\ \A f \in { "NAME", "EMAIL", "DATE" } \ { e.type } : ~InList(e, metadataTargets'[f])

\* after the step, entry e is a signature target and in no metadata list
BucketedAsSignature(e) ==
    /\ InList(e, signatureTargets')
    /\ \A f \in { "NAME", "EMAIL", "DATE" } : ~InList(e, metadataTargets'[f])

\* C28: when the fetched positions are applied, every entry is in exactly one
\* bucket: an entry of type NAME, EMAIL or DATE in the metadata list of that
\* type, every other entry (SIGNATURE, no type, a type that is not
\* recognized) among the signature targets; none is dropped.
C28_EveryEntryBucketed ==
    [][ \A i \in 1 .. MaxEffectRuns, r \in RemoteResponses :
          ( HydrateResolve(i, r) /\ ~hydRuns[i].cancelled ) =>
             \A k \in DOMAIN r :
                IF r[k].type \in { "NAME", "EMAIL", "DATE" }
                THEN BucketedAsMetadata(r[k])
                ELSE BucketedAsSignature(r[k]) ]_vars

\* the same for the entries whose type is absent or one of the four known
RecognizedEntriesBucketed ==
    [][ \A i \in 1 .. MaxEffectRuns, r \in RemoteResponses :
          ( HydrateResolve(i, r) /\ ~hydRuns[i].cancelled ) =>
             \A k \in DOMAIN r :
                IF r[k].type \in { "NAME", "EMAIL", "DATE" }
                THEN BucketedAsMetadata(r[k])
                ELSE r[k].type \in { "ABSENT", "SIGNATURE" } => BucketedAsSignature(r[k]) ]_vars

\* the step pushes exactly one history entry, with the bytes of snapshot b
PushesOne(b) ==
    /\ Len(pdfHistory') = Len(pdfHistory) + 1
    /\ SubSeq(pdfHistory', 1, Len(pdfHistory)) = pdfHistory
    /\ Bytes(EntrySnapshot(pdfHistory'[Len(pdfHistory')])) = Bytes(b)

\* with undo enabled, the one push of a mutation: the template-based editor
\* pushes the active snapshot when the placement starts and nothing when it
\* settles; the fixed-position editor pushes nothing when the placement
\* starts and, when it publishes, the snapshot the placement started from
OnePushPerMutation ==
    /\ \A drawn \in BOOLEAN, meta \in MetaInputs, sliceThrows \in BOOLEAN :
          handleAddSignature(drawn, meta, sliceThrows) =>
             IF Len(placing') = Len(placing) + 1
             THEN PushesOne(currentPdfBlob)
             ELSE pdfHistory' = pdfHistory
    /\ \A i \in 1 .. MaxInFlight, lib \in LibFailures :
          AddSignatureSettle(i, lib) => pdfHistory' = pdfHistory
    /\ \A drawn \in BOOLEAN, meta \in MetaInputs :
          FixedHandleAddSignature(drawn, meta) => pdfHistory' = pdfHistory
    /\ \A i \in 1 .. MaxInFlight, lib \in LibFailures :
          FixedAddSignatureSettle(i, lib) =>
             IF toast' = "Signature added successfully!"
             THEN PushesOne(placing[i].base)
             ELSE pdfHistory' = pdfHistory

\* C29: with undo enabled, every published mutation pushes exactly one
\* history entry, equal in content to the snapshot that was active when the
\* mutation started; with undo disabled the history is empty in every state.
C29_HistoryFollowsUndoFlag ==
    /\ [] ( ~enableUndo => pdfHistory = << >> )
    /\ [][ enableUndo => OnePushPerMutation ]_vars

\* the fixed-position editor, undo enabled, published a placement and holds
\* the snapshot it started from as its one history entry
C29_Witness ==
    /\ editor = "fixed"
    /\ enableUndo
    /\ lastPlacement.phase = "published"
    /\ Len(pdfHistory) = 1
    /\ pdfHistory[1].pdf = lastPlacement.pre.cur
    /\ currentPdfBlob # lastPlacement.pre.cur

\* a placement was published with undo disabled
PublishedWithoutUndo ==
    /\ ~enableUndo
    /\ lastPlacement.phase = "published"
    /\ pdfHistory = << >>

\* no history entry holds the original snapshot itself (the same object, or
\* the same URL string)
OriginalOffHistory ==
    \A k \in DOMAIN pdfHistory : EntrySnapshot(pdfHistory[k]) # originalPdfBlob

\* C30: the original snapshot reference is in no reachable state an element
\* of the history stack, and reset() makes the original the active snapshot
\* whatever the history holds.
C30_OriginalHeldOutOfBand ==
    /\ [] OriginalOffHistory
    /\ [][ ResetStep => ( currentPdfBlob' = originalPdfBlob
                          /\ originalPdfBlob' = originalPdfBlob ) ]_vars

\* reset() makes the original the active snapshot whatever the history holds
ResetIgnoresHistory ==
    [][ ResetStep => ( currentPdfBlob' = originalPdfBlob
                       /\ originalPdfBlob' = originalPdfBlob ) ]_vars

\* in the template-based editor the history holds the original object only
\* as the latest entry of a push whose Blob.slice threw
TemplateHistoryHoldsClones ==
    ( editor = "template" /\ ~OriginalOffHistory ) =>
       \E k \in DOMAIN pdfHistory : pdfHistory[k].ref # << "clone", 0 >>

\* a submission of the template-based editor proceeds: handleSubmit passes
\* its two checks; endpoint says whether signConfig.endpoint is set
SubmitProceeds(endpoint) ==
    /\ handleSubmit(endpoint)
    /\ Len(submitting') = Len(submitting) + 1

\* the branch the submission that just started took
StartedPath == submitting'[Len(submitting')].path

SessionRequestSent ==
    /\ editor = "template"
    /\ sessionTokenRef # None
    /\ netLog = << "session" >>

\* snapshot b carries the layer of at least one published placement
Signed(b) == b # NoBlob /\ b.layers # << >>

\* C32: modifiedPdfBlob is non-null only while the active snapshot contains a
\* placed signature, and the bytes it holds (the bytes a submit would send)
\* are signed.
C32_ModifiedOnlyWhenSigned ==
    modifiedPdfBlob # NoBlob => ( Signed(currentPdfBlob) /\ Signed(modifiedPdfBlob) )

\* the same in the fixed-position editor alone
FixedModifiedOnlyWhenSigned ==
    ( editor = "fixed" /\ modifiedPdfBlob # NoBlob )
       => ( Signed(currentPdfBlob) /\ Signed(modifiedPdfBlob) )

FixedFailedPlacementLeavesHistory ==
    ( editor = "fixed" /\ lastPlacement.phase = "failed" ) =>
       pdfHistory = lastPlacement.pre.hist

\* a failed placement leaves the snapshots and the flags as they were
FailedPlacementLeavesSnapshots ==
    lastPlacement.phase = "failed" =>
       /\ currentPdfBlob = lastPlacement.pre.cur
       /\ originalPdfBlob = lastPlacement.pre.orig
       /\ modifiedPdfBlob = lastPlacement.pre.mod
       /\ hasSignature = lastPlacement.pre.has

\* the metadata fields a commit has to write: shown and with a value
FieldsToWrite(meta) ==
    { f \in { "NAME", "EMAIL", "DATE" } :
        \/ f = "NAME" /\ meta.name
        \/ f = "EMAIL" /\ meta.email
        \/ f = "DATE" /\ meta.date }

\* the layer holds a text line of field f, at a coordinate target or in a
\* fallback block
FieldDrawn(layer, f) ==
    \E j \in DOMAIN layer :
       layer[j].kind \in { "text", "fallback" } /\ layer[j].field = f

\* C34: a successful commit of the template-based editor draws every
\* metadata field that is shown and has a value at least once, at its
\* coordinate targets or in the fallback block, whichever field types have
\* coordinate targets.
C34_EveryEnabledFieldDrawn ==
    ( editor = "template" /\ lastPlacement.phase = "published" ) =>
       \A f \in FieldsToWrite(lastPlacement.task.meta) :
          FieldDrawn(LastLayer(currentPdfBlob), f)

\* the same when no field type, or every field to write, has coordinate
\* targets
EveryEnabledFieldDrawnUniform ==
    ( /\ editor = "template"
      /\ lastPlacement.phase = "published"
      /\ \/ NoMetadataTargets(lastPlacement.task.mtargets)
         \/ \A f \in FieldsToWrite(lastPlacement.task.meta) :
               lastPlacement.task.mtargets[f] # << >> ) =>
       \A f \in FieldsToWrite(lastPlacement.task.meta) :
          FieldDrawn(LastLayer(currentPdfBlob), f)

\* the document state is the one a reset leaves
AsReset ==
    /\ currentPdfBlob = originalPdfBlob
    /\ pdfHistory = << >>
    /\ hasSignature = FALSE

\* C35: when reset() ran while a placement was in flight, the state after the
\* placement has settled is still the one the reset left: the active
\* snapshot is the original, the history is empty and hasSignature is false.
C35_ResetWinsOverLatePlacement ==
    lastPlacement.phase \in { "publishedAfterReset", "failedAfterReset" } => AsReset

\* reset() during a placement leaves the reset state until the placement
\* settles, and a placement that then fails leaves it for good
ResetHoldsUntilPublish ==
    lastPlacement.phase \in { "resetInFlight", "failedAfterReset" } =>
       /\ currentPdfBlob = originalPdfBlob
       /\ hasSignature = FALSE
       /\ editor = "fixed" => pdfHistory = << >>

\* a load of the fixed-position editor installs a new original
FixedLoadStep ==
    \/ \E q \in FixedProps : FixedChangeProps(q) /\ originalPdfBlob' # originalPdfBlob
    \/ \E i \in 1 .. MaxEffectRuns : FixedLoadResolve(i)
    \/ FixedMount /\ originalPdfBlob' # NoBlob

\* a load of the template-based editor installs a new original
TemplateLoadStep ==
    \E i \in 1 .. MaxEffectRuns : BootResolve(i) /\ originalPdfBlob' # originalPdfBlob

\* C36: whenever a new original document is loaded (first load or a change of
\* the document source), the history is emptied and modifiedPdfBlob cleared,
\* so that every history entry and modifiedPdfBlob belong to the document
\* that is loaded.
C36_LoadClearsHistory ==
    [][ ( FixedLoadStep \/ TemplateLoadStep ) =>
          ( pdfHistory' = << >> /\ modifiedPdfBlob' = NoBlob ) ]_vars

\* the same in the template-based editor alone
TemplateLoadClearsHistory ==
    [][ TemplateLoadStep =>
          ( pdfHistory' = << >> /\ modifiedPdfBlob' = NoBlob /\ hasSignature' = FALSE ) ]_vars

\* every history entry and modifiedPdfBlob hold bytes of the document that is
\* loaded
SnapshotsOfLoadedDocument ==
    originalPdfBlob # NoBlob =>
       /\ \A k \in DOMAIN pdfHistory : EntrySnapshot(pdfHistory[k]).doc = originalPdfBlob.doc
       /\ modifiedPdfBlob # NoBlob => modifiedPdfBlob.doc = originalPdfBlob.doc

\* the runs of the load effect that issued request r for template t
RunsIssuing(r, t) ==
    { i \in DOMAIN bootRuns :
        /\ bootRuns[i].templateId = t
        /\ \E k \in DOMAIN bootRuns[i].issued : bootRuns[i].issued[k] = r }

\* C37: an editor given a templateId and no documentId issues at most one
\* create-document request and at most one create-session request for that
\* template, also when the load effect runs again while an earlier run still
\* awaits its responses.
C37_OneDocumentOneSession ==
    ( editor = "template" /\ props.templateId # None /\ props.documentId = None ) =>
       /\ Cardinality(RunsIssuing("createDoc", props.templateId)) <= 1
       /\ Cardinality(RunsIssuing("createSession", props.templateId)) <= 1

\* a run that starts after the document id and the session token are stored
\* creates neither again
StoredIdsAreReused ==
    [][ ( RerunBootstrap /\ documentIdRef # None /\ sessionTokenRef # None ) =>
          bootRuns'[Len(bootRuns')].issued = << "fetchView" >> ]_vars


\* C38: after each document-load success reporting n pages, onAllPagesRendered(n)
\* is invoked at most once, and not before each of the n pages of that document
\* has rendered at least once
C38_AllPagesRenderedOnceBeforeNotice ==
    editor = "template" =>
        /\ viewer.notified <= 1
        /\ viewer.notified >= 1 => viewer.renderedOnce = 1 .. viewer.totalPages

\* the "at most once" half of C38: pagesReadyNotifiedRef lets one call through per load
NoticeAtMostOncePerLoad ==
    editor = "template" =>
        /\ viewer.notified <= 1
        /\ viewer.pagesReadyNotified <=> viewer.notified = 1

\* as long as no page rendered twice since the load, the notice waits for every page
NoticeWaitsWithoutRerender ==
    ( editor = "template"
      /\ viewer.notified >= 1
      /\ viewer.pagesRendered = Cardinality(viewer.renderedOnce) )
        => viewer.renderedOnce = 1 .. viewer.totalPages

\* the notice has gone out although a page of the loaded document never rendered
NoticeBeforeEveryPage ==
    /\ editor = "template"
    /\ viewer.notified = 1
    /\ viewer.renderedOnce # 1 .. viewer.totalPages

\* C39: in the fixed-position editor, whenever totalPages > 0 the displayed page
\* index satisfies 0 <= pageNum <= totalPages - 1, after any sequence of
\* Previous/Next clicks, placements, undos, resets and document loads
C39_PageNumWithinDocument ==
    ( editor = "fixed" /\ viewer.totalPages > 0 ) =>
        /\ 0 <= viewer.pageNum
        /\ viewer.pageNum <= viewer.totalPages - 1

\* the index stays within the document as long as every document the
\* instance has shown has as many pages as the current one
PageNumWithinDocumentOfSameLength ==
    [][ ( /\ editor = "fixed"
          /\ viewer.totalPages > 0
          /\ viewer.pageNum <= viewer.totalPages - 1
          /\ viewer'.totalPages >= viewer.totalPages )
        => viewer'.pageNum <= viewer'.totalPages - 1 ]_vars

\* only a Document load success reporting fewer pages takes the index off the document
OnlyShorterDocumentBreaksPageNum ==
    [][ ( /\ editor = "fixed"
          /\ viewer.totalPages > 0
          /\ viewer.pageNum <= viewer.totalPages - 1
          /\ viewer'.pageNum > viewer'.totalPages - 1 )
        => ( FixedDocumentLoadSuccess /\ viewer'.totalPages < viewer.totalPages ) ]_vars

\* the Page is asked for a page the loaded document does not have
PageOffDocument ==
    /\ editor = "fixed"
    /\ viewer.file = currentPdfBlob
    /\ viewer.totalPages = ShortDocPages
    /\ viewer.pageNum = DocPages - 1

\* C40: every submission that starts (isSubmitting set to true) eventually ends
\* with isSubmitting false, whether the awaited call resolves or rejects, provided
\* it settles; isSubmitting is never left true once no submit handler is suspended
C40_SubmittingEnds ==
    /\ []( submitting = << >> => ~isSubmitting )
    /\ ( isSubmitting ~> ~isSubmitting )

\* a submission of the fixed-position editor was rejected and the flag is down
C40_Witness ==
    /\ editor = "fixed"
    /\ submitting = << >>
    /\ toast = "Failed to submit"
    /\ ~isSubmitting

\* a raised flag belongs to a submit handler that is still suspended
SubmittingHasHandlerInFlight == isSubmitting => submitting # << >>

====
